---- MODULE Spec2Model ----
(***************************************************************************)
(* A model of mouse-warp.py: the polling loop that wraps the pointer at    *)
(* screen edges, switches monitors on a modifier gesture, accelerates the  *)
(* pointer and classifies monitor crossings.                               *)
(*                                                                         *)
(* Time is counted in units of 100 ms (0.1 s of time.time()).  Monitor     *)
(* indices are 0-based as in the source; mon_list[i] of the source is      *)
(* mon_list[i + 1] here.  A value that may be None is a tuple: <<>> is None *)
(* and <<v>> is the value v (last_pos is <<>> or <<x, y>>).                 *)
(***************************************************************************)
EXTENDS Integers, Sequences, FiniteSets, TLC

VARIABLES
    config,                 \* the global configuration dictionary
    mon_list,               \* sorted monitor rectangles <<x1, y1, x2, y2>>
    SCREEN_W, SCREEN_H,     \* X screen dimensions
    last_geometry_refresh,  \* _last_geometry_refresh
    prev_x, prev_y,         \* previous pointer position, or None
    last_warp_time,         \* cooldown timestamp
    prev_shift_pressed,
    accel_edge_pressure,    \* per-edge acceleration pressure
    prev_monitor,           \* monitor index of the previous tick, or None
    edge_resistance,        \* the EdgeResistance instance
    x, y,                   \* main()'s locals: the pointer position of the tick
    shift_pressed, ctrl_pressed,
    now,                    \* main()'s local: the tick's timestamp
    pc,                     \* position of the main loop inside a tick
    alive,                  \* FALSE once an exception left main()
    clock,                  \* time.time()
    ptr,                    \* where the X pointer really is
    xlayout,                \* what xrandr reports (in xrandr's order)
    pending,                \* queued RandR screen-change events
    out,                    \* the directives of the current tick
    hist,                   \* history of the switch directives
    threads,                \* the display lock, the listener and animations
    env                     \* the environment the run is drawn from

vars == <<config, mon_list, SCREEN_W, SCREEN_H, last_geometry_refresh, prev_x,
          prev_y, last_warp_time, prev_shift_pressed, accel_edge_pressure,
          prev_monitor, edge_resistance, x, y, shift_pressed, ctrl_pressed,
          now, pc, alive, clock, ptr, xlayout, pending, out, hist, threads,
          env>>

None == <<>>

Some(v) == <<v>>

Edges == {"left", "right", "top", "bottom"}

(***************************************************************************)
(* Bounds of the model.                                                    *)
(***************************************************************************)
MW == 4             \* width of a small monitor, in pixels
MH == 4             \* height of a small monitor, in pixels
MaxTime == 12       \* the clock stops advancing here
MaxPending == 1     \* queued RandR events
MaxOvershoot == 2   \* how far beyond the screen a computed position is followed
GeoMax == 2         \* monitor corners of the geometry check lie in 0..GeoMax
MaxAnimations == 2  \* indicator animations counted at a time

(***************************************************************************)
(* Program constants, in units of 100 ms.                                  *)
(***************************************************************************)
GEOMETRY_REFRESH_DEBOUNCE == 2  \* 0.2 s
SWITCH_COOLDOWN == 4            \* 0.4 s
CROSS_COOLDOWN == 1             \* 0.1 s

\* time.time() at start-up: an epoch time, far from the 0 that last_warp_time
\* and _last_geometry_refresh start at.
StartTime == SWITCH_COOLDOWN + 1

(***************************************************************************)
(* Arithmetic helpers.                                                     *)
(***************************************************************************)
Abs(n) == IF n < 0 THEN -n ELSE n

Min2(a, b) == IF a < b THEN a ELSE b

Max2(a, b) == IF a > b THEN a ELSE b

\* int(d * multiplier): the multiplier is the fraction m[1] / m[2]; int()
\* truncates towards zero.
IntMul(d, m) ==
    IF d * m[1] >= 0 THEN (d * m[1]) \div m[2] ELSE -((-(d * m[1])) \div m[2])

SetMin(S) == CHOOSE a \in S : \A b \in S : a <= b

SetMax(S) == CHOOSE a \in S : \A b \in S : a >= b

(***************************************************************************)
(* Monitor geometry.                                                       *)
(***************************************************************************)
\* Mutant of Contains: the right and bottom bounds are included.
Contains_Closed(m, cx, cy) ==
    m[1] <= cx /\ cx <= m[3] /\ m[2] <= cy /\ cy <= m[4]

Contains(m, cx, cy) == m[1] <= cx /\ cx < m[3] /\ m[2] <= cy /\ cy < m[4]

\* Mutant of CenterX: the last column of the monitor.
CenterX_LastColumn(m) == m[3] - 1

CenterX(m) == (m[1] + m[3]) \div 2

CenterY(m) == (m[2] + m[4]) \div 2

CenterDist(m, cx, cy) ==
    (cx - CenterX(m)) * (cx - CenterX(m)) + (cy - CenterY(m)) * (cy - CenterY(m))

\* The fallback loop of get_monitor_at: the first monitor whose centre is
\* strictly closer than every earlier one.
RECURSIVE ClosestFrom(_, _, _, _, _, _)
ClosestFrom(ml, cx, cy, i, min_dist, closest) ==
    IF i > Len(ml) THEN closest
    ELSE IF min_dist = None \/ CenterDist(ml[i], cx, cy) < min_dist[1]
         THEN ClosestFrom(ml, cx, cy, i + 1, Some(CenterDist(ml[i], cx, cy)),
                          i - 1)
         ELSE ClosestFrom(ml, cx, cy, i + 1, min_dist, closest)

get_monitor_at(ml, cx, cy) ==
    IF \E i \in 1..Len(ml) : Contains(ml[i], cx, cy)
    THEN SetMin({i \in 1..Len(ml) : Contains(ml[i], cx, cy)}) - 1
    ELSE ClosestFrom(ml, cx, cy, 1, None, 0)

\* <<min_x, min_y, max_x, max_y>>
get_screen_bounds(ml, w, h) ==
    IF Len(ml) = 0 THEN <<0, 0, w, h>>
    ELSE <<SetMin({ml[i][1] : i \in 1..Len(ml)}),
           SetMin({ml[i][2] : i \in 1..Len(ml)}),
           SetMax({ml[i][3] : i \in 1..Len(ml)}),
           SetMax({ml[i][4] : i \in 1..Len(ml)})>>

\* KeyLess comparing the x origins only.
KeyLess_ByX(a, b) == a[1] < b[1]

\* key=lambda m: (m[0], m[1])
KeyLess(a, b) == a[1] < b[1] \/ (a[1] = b[1] /\ a[2] < b[2])

\* list.sort is stable: an element goes after every element whose key is
\* not greater.
RECURSIVE InsertSorted(_, _)
InsertSorted(s, m) ==
    IF s = <<>> THEN <<m>>
    ELSE IF KeyLess(m, Head(s)) THEN <<m>> \o s
         ELSE <<Head(s)>> \o InsertSorted(Tail(s), m)

RECURSIVE SortMonitors(_)
SortMonitors(s) ==
    IF s = <<>> THEN <<>>
    ELSE InsertSorted(SortMonitors(SubSeq(s, 1, Len(s) - 1)), s[Len(s)])

(***************************************************************************)
(* class EdgeResistance.  An instance is the record                        *)
(*   [edge_hit_time, edge_pressure, last_pos, last_time];                  *)
(* a method that returns a value and changes the instance yields           *)
(*   [allow |-> the value, er |-> the instance afterwards].                *)
(***************************************************************************)
EdgeResistance_reset ==
    [edge_hit_time |-> [e \in Edges |-> None],
     edge_pressure |-> [e \in Edges |-> 0],
     last_pos |-> None,
     last_time |-> None]

\* check_time letting the wrap through only after more than the delay.
check_time_Late(er, cfg, edge, t) ==
    IF er.edge_hit_time[edge] = None
    THEN [allow |-> FALSE,
          er |-> [er EXCEPT !.edge_hit_time[edge] = Some(t)]]
    ELSE IF t - er.edge_hit_time[edge][1] > cfg.edge_resistance.time_delay
         THEN [allow |-> TRUE,
               er |-> [er EXCEPT !.edge_hit_time[edge] = None]]
         ELSE [allow |-> FALSE, er |-> er]

\* _check_time: the pointer has to dwell at the edge for time_delay.
check_time(er, cfg, edge, t) ==
    IF er.edge_hit_time[edge] = None
    THEN [allow |-> FALSE,
          er |-> [er EXCEPT !.edge_hit_time[edge] = Some(t)]]
    ELSE IF t - er.edge_hit_time[edge][1] >= cfg.edge_resistance.time_delay
         THEN [allow |-> TRUE,
               er |-> [er EXCEPT !.edge_hit_time[edge] = None]]
         ELSE [allow |-> FALSE, er |-> er]

\* The pressure the tick adds: movement along the edge since last_pos.
DistanceAdded(er, edge, cx, cy) ==
    IF er.last_pos = None THEN 0
    ELSE IF edge \in {"left", "right"}
         THEN Abs(cy - er.last_pos[2])
         ELSE Abs(cx - er.last_pos[1])

\* Mutant of check_distance: the wrap needs the pressure to exceed the
\* threshold.
check_distance_Exceed(er, cfg, edge, cx, cy) ==
    LET p == er.edge_pressure[edge] + DistanceAdded(er, edge, cx, cy)
    IN  IF p > cfg.edge_resistance.distance_threshold
        THEN [allow |-> TRUE, er |-> [er EXCEPT !.edge_pressure[edge] = 0]]
        ELSE [allow |-> FALSE, er |-> [er EXCEPT !.edge_pressure[edge] = p]]

check_distance(er, cfg, edge, cx, cy) ==
    LET p == er.edge_pressure[edge] + DistanceAdded(er, edge, cx, cy)
    IN  IF p >= cfg.edge_resistance.distance_threshold
        THEN [allow |-> TRUE, er |-> [er EXCEPT !.edge_pressure[edge] = 0]]
        ELSE [allow |-> FALSE, er |-> [er EXCEPT !.edge_pressure[edge] = p]]

\* Mutant of VelocityReached: the velocity has to exceed the threshold.
VelocityReached_Strict(dx, dy, dt, threshold) ==
    threshold < 0 \/ dx * dx + dy * dy > threshold * threshold * dt * dt

\* velocity >= threshold, with velocity = sqrt(dx^2 + dy^2) / dt and dt > 0:
\* compared exactly, as squares.
VelocityReached(dx, dy, dt, threshold) ==
    threshold <= 0 \/ dx * dx + dy * dy >= threshold * threshold * dt * dt

check_velocity(er, cfg, cx, cy, t) ==
    IF er.last_pos # None /\ er.last_time # None /\ t - er.last_time[1] > 0
    THEN [allow |-> VelocityReached(cx - er.last_pos[1], cy - er.last_pos[2],
                                    t - er.last_time[1],
                                    cfg.edge_resistance.velocity_threshold),
          er |-> er]
    ELSE [allow |-> FALSE, er |-> er]

\* Mutant of should_allow_wrap: every wrap is allowed.
should_allow_wrap_Always(er, cfg, edge, cx, cy, t) ==
    [allow |-> TRUE, er |-> er]

should_allow_wrap(er, cfg, edge, cx, cy, t) ==
    IF ~cfg.edge_resistance.enabled THEN [allow |-> TRUE, er |-> er]
    ELSE IF cfg.edge_resistance.mode = "none" THEN [allow |-> TRUE, er |-> er]
    ELSE IF cfg.edge_resistance.mode = "time" THEN check_time(er, cfg, edge, t)
    ELSE IF cfg.edge_resistance.mode = "distance"
         THEN check_distance(er, cfg, edge, cx, cy)
    ELSE IF cfg.edge_resistance.mode = "velocity"
         THEN check_velocity(er, cfg, cx, cy, t)
    ELSE [allow |-> TRUE, er |-> er]

EdgeResistance_update(er, cx, cy, t) ==
    [er EXCEPT !.last_pos = <<cx, cy>>, !.last_time = Some(t)]

clear_edge(er, edge) ==
    [er EXCEPT !.edge_hit_time[edge] = None, !.edge_pressure[edge] = 0]

(***************************************************************************)
(* The program state as one record, threaded through the steps of a tick.  *)
(***************************************************************************)
State ==
    [config |-> config, mon_list |-> mon_list, SCREEN_W |-> SCREEN_W,
     SCREEN_H |-> SCREEN_H, last_geometry_refresh |-> last_geometry_refresh,
     prev_x |-> prev_x, prev_y |-> prev_y, last_warp_time |-> last_warp_time,
     prev_shift_pressed |-> prev_shift_pressed,
     accel_edge_pressure |-> accel_edge_pressure,
     prev_monitor |-> prev_monitor, edge_resistance |-> edge_resistance,
     x |-> x, y |-> y, shift_pressed |-> shift_pressed,
     ctrl_pressed |-> ctrl_pressed, now |-> now, alive |-> alive,
     ptr |-> ptr, out |-> out]

Install(st) ==
    /\ config' = st.config
    /\ mon_list' = st.mon_list
    /\ SCREEN_W' = st.SCREEN_W
    /\ SCREEN_H' = st.SCREEN_H
    /\ last_geometry_refresh' = st.last_geometry_refresh
    /\ prev_x' = st.prev_x
    /\ prev_y' = st.prev_y
    /\ last_warp_time' = st.last_warp_time
    /\ prev_shift_pressed' = st.prev_shift_pressed
    /\ accel_edge_pressure' = st.accel_edge_pressure
    /\ prev_monitor' = st.prev_monitor
    /\ edge_resistance' = st.edge_resistance
    /\ x' = st.x
    /\ y' = st.y
    /\ shift_pressed' = st.shift_pressed
    /\ ctrl_pressed' = st.ctrl_pressed
    /\ now' = st.now
    /\ alive' = st.alive
    /\ ptr' = st.ptr
    /\ out' = st.out

\* The directives of a tick, before any is issued.
NoOut ==
    [raw |-> None, accel |-> None, switch |-> None, wrap_v |-> None,
     wrap_h |-> None, cross |-> "none", moves |-> <<>>, indicators |-> <<>>,
     refresh |-> None, fault |-> "none", pre |-> None]

\* An uncaught exception leaves main(): the process ends.
Crash(st, why) == [st EXCEPT !.alive = FALSE, !.out.fault = why]

(***************************************************************************)
(* The X server, xrandr and xdpyinfo.                                      *)
(***************************************************************************)
\* The X screen spans the monitors from the origin.
ScreenDims(xl) ==
    <<SetMax({xl[i][3] : i \in 1..Len(xl)}),
      SetMax({xl[i][4] : i \in 1..Len(xl)})>>

\* What one enumeration yields: the rectangles xrandr printed (none when it
\* failed), the dimensions xdpyinfo printed (<<0, 0>> when it failed) and the
\* root window's geometry (None when the query raises).
EnumOutcome(kind, xl) ==
    [xrandr |-> IF kind \in {"ok", "no_xdpyinfo"} THEN xl ELSE <<>>,
     dims |-> IF kind \in {"ok", "no_xrandr"} THEN ScreenDims(xl) ELSE <<0, 0>>,
     root |-> IF kind = "raise" THEN None ELSE ScreenDims(xl)]

\* The X server keeps the pointer on a monitor: a move to a point outside
\* every monitor ends on the nearest pixel of the nearest monitor.
ClampInto(m, cx, cy) ==
    <<Max2(m[1], Min2(m[3] - 1, cx)), Max2(m[2], Min2(m[4] - 1, cy))>>

PointerAfterMove(xl, tx, ty) ==
    IF \E i \in 1..Len(xl) : Contains(xl[i], tx, ty) THEN <<tx, ty>>
    ELSE ClampInto(xl[get_monitor_at(xl, tx, ty) + 1], tx, ty)

(***************************************************************************)
(* refresh_monitor_geometry(force) at time t, the enumeration yielding en. *)
(* Yields [st |-> the state afterwards, changed |-> the return value].     *)
(***************************************************************************)
\* The record of one call, kept in out.refresh: seen is what the call
\* enumerated, None when it was debounced.
RefreshCall(st, force, t, ret, seen) ==
    Some([force |-> force, since |-> t - st.last_geometry_refresh, ret |-> ret,
          seen |-> seen])

\* Mutant of Debounced: the window is one clock unit shorter.
Debounced_Shorter(st, force, t) ==
    ~force /\ (t - st.last_geometry_refresh) < GEOMETRY_REFRESH_DEBOUNCE - 1

\* not force and (now - _last_geometry_refresh) < GEOMETRY_REFRESH_DEBOUNCE
Debounced(st, force, t) ==
    ~force /\ (t - st.last_geometry_refresh) < GEOMETRY_REFRESH_DEBOUNCE

\* Mutant of EnumeratedList: the fallback rectangle takes the dimensions
\* xdpyinfo printed.
EnumeratedList_FromXdpyinfo(en, new_screen) ==
    IF en.xrandr = <<>>
    THEN <<<<0, 0, en.dims[1], en.dims[2]>>>>
    ELSE SortMonitors(en.xrandr)

\* new_mon_list: the sorted rectangles of xrandr, or one rectangle over the
\* root window when there are none.
EnumeratedList(en, new_screen) ==
    IF en.xrandr = <<>>
    THEN <<<<0, 0, new_screen[1], new_screen[2]>>>>
    ELSE SortMonitors(en.xrandr)

refresh_monitor_geometry(st, force, t, en) ==
    IF Debounced(st, force, t)
    THEN [st |-> [st EXCEPT !.out.refresh =
                                RefreshCall(st, force, t, FALSE, None)],
          changed |-> FALSE]
    ELSE
    LET st1 == [st EXCEPT !.last_geometry_refresh = t]
        fallback == en.xrandr = <<>> \/ en.dims[1] = 0
    IN  IF fallback /\ en.root = None
        THEN [st |-> Crash(st1, "get_geometry"), changed |-> FALSE]
        ELSE
        LET new_screen == IF fallback THEN en.root ELSE en.dims
            new_mon_list == EnumeratedList(en, new_screen)
            changed == new_mon_list # st.mon_list
                       \/ new_screen # <<st.SCREEN_W, st.SCREEN_H>>
            st2 == [st1 EXCEPT !.mon_list = new_mon_list,
                               !.SCREEN_W = new_screen[1],
                               !.SCREEN_H = new_screen[2],
                               !.out.refresh =
                                   RefreshCall(st, force, t, changed, Some(en))]
        IN  IF changed /\ st.mon_list # <<>>
            THEN [st |-> [st2 EXCEPT !.edge_resistance = EdgeResistance_reset,
                                     !.prev_x = None, !.prev_y = None],
                  changed |-> TRUE]
            ELSE [st |-> st2, changed |-> changed]

(***************************************************************************)
(* Input helpers and indicators.                                           *)
(***************************************************************************)
\* move_mouse(tx, ty): ok is whether xdotool succeeded.  The request is
\* recorded; the pointer moves only when it succeeded.
move_mouse(st, xl, tx, ty, ok) ==
    [st EXCEPT !.out.moves = Append(@, <<tx, ty, ok>>),
               !.ptr = IF ok THEN PointerAfterMove(xl, tx, ty) ELSE @]

\* A request to show an indicator; at is <<x, y>> for brackets and
\* <<cross_pos>> for an edge flash.
Indicator(kind, tag, edge, edge_pos, at) ==
    [kind |-> kind, tag |-> tag, edge |-> edge, edge_pos |-> edge_pos,
     at |-> at]

show_corner_brackets(st, tag, px, py) ==
    IF ~st.config.highlight.enabled THEN st
    ELSE [st EXCEPT !.out.indicators =
             Append(@, Indicator("corner-highlight", tag, "none", None, <<px, py>>))]

show_edge_flash(st, tag, edge, cross_pos, edge_pos) ==
    IF ~st.config.highlight.enabled THEN st
    ELSE [st EXCEPT !.out.indicators =
             Append(@, Indicator("edge-flash", tag, edge, Some(edge_pos),
                                 <<cross_pos>>))]

\* show_cursor_highlight with an edge given, as every caller does.
show_cursor_highlight(st, tag, px, py, edge, edge_pos) ==
    IF ~st.config.highlight.enabled THEN st
    ELSE IF st.config.highlight.style = "edge_flash"
         THEN show_edge_flash(st, tag, edge,
                              IF edge \in {"left", "right"} THEN py ELSE px,
                              edge_pos)
         ELSE show_corner_brackets(st, tag, px, py)

\* warp_to_monitor(idx, from_x, from_y); t is time.time() when it returns.
warp_to_monitor(st, xl, idx, from_x, ok, t) ==
    IF ~(0 <= idx /\ idx < Len(st.mon_list)) THEN st
    ELSE
    LET m == st.mon_list[idx + 1]
        new_x == CenterX(m)
        new_y == CenterY(m)
        st1 == [move_mouse(st, xl, new_x, new_y, ok)
                    EXCEPT !.out.switch = Some(idx)]
        st2 == IF st1.config.highlight.monitor_cross_style = "brackets"
               THEN show_corner_brackets(st1, "monitor-warp", new_x, new_y)
               ELSE IF from_x < new_x
                    THEN show_edge_flash(st1, "monitor-warp", "left", new_y,
                                         m[1])
               ELSE IF from_x > new_x
                    THEN show_edge_flash(st1, "monitor-warp", "right", new_y,
                                         m[3])
               ELSE show_corner_brackets(st1, "monitor-warp", new_x, new_y)
    IN  [st2 EXCEPT !.last_warp_time = t]

(***************************************************************************)
(* The steps of one iteration of main()'s loop.                            *)
(***************************************************************************)
\* The RandR events pending at the top of the loop: one non-forced refresh
\* per event.
RECURSIVE DrainEvents(_, _, _, _)
DrainEvents(st, n, t, en) ==
    IF n = 0 \/ ~st.alive THEN st
    ELSE DrainEvents(refresh_monitor_geometry(st, FALSE, t, en).st, n - 1, t, en)

\* x, y, shift_pressed, ctrl_pressed = query_pointer(); now = time.time()
\* The sample is where the pointer is; a failing query raises.
StepSample(st, s, ok, t) ==
    IF ~st.alive THEN st
    ELSE IF ~ok THEN Crash(st, "query_pointer")
    ELSE [st EXCEPT !.x = s.x, !.y = s.y, !.shift_pressed = s.shift,
                    !.ctrl_pressed = s.ctrl, !.now = t, !.ptr = <<s.x, s.y>>,
                    !.out.raw = <<s.x, s.y>>]

\* Mutant of AccelAxis: the pointer is still held when the pressure equals
\* the edge resistance.
AccelAxis_HoldAtThreshold(n, lo, hi, p_lo, p_hi, edge_resist) ==
    LET low == IF n < lo
               THEN IF p_lo + (lo - n) <= edge_resist
                    THEN <<lo, p_lo + (lo - n)>>
                    ELSE <<n, 0>>
               ELSE <<n, 0>>
        n1 == low[1]
        high == IF n1 >= hi
                THEN IF p_hi + (n1 - (hi - 1)) <= edge_resist
                     THEN <<hi - 1, p_hi + (n1 - (hi - 1))>>
                     ELSE <<n1, 0>>
                ELSE <<n1, 0>>
    IN  <<high[1], low[2], high[2]>>

\* AccelAxis leaving the pressure of an edge that is not overflowed as it
\* was.
AccelAxis_KeepPressure(n, lo, hi, p_lo, p_hi, edge_resist) ==
    LET low == IF n < lo
               THEN IF p_lo + (lo - n) < edge_resist
                    THEN <<lo, p_lo + (lo - n)>>
                    ELSE <<n, 0>>
               ELSE <<n, p_lo>>
        n1 == low[1]
        high == IF n1 >= hi
                THEN IF p_hi + (n1 - (hi - 1)) < edge_resist
                     THEN <<hi - 1, p_hi + (n1 - (hi - 1))>>
                     ELSE <<n1, 0>>
                ELSE <<n1, p_hi>>
    IN  <<high[1], low[2], high[2]>>

\* AccelAxis letting the pointer cross without resetting the pressure that
\* released it.
AccelAxis_NoRelease(n, lo, hi, p_lo, p_hi, edge_resist) ==
    LET low == IF n < lo
               THEN IF p_lo + (lo - n) < edge_resist
                    THEN <<lo, p_lo + (lo - n)>>
                    ELSE <<n, p_lo + (lo - n)>>
               ELSE <<n, 0>>
        n1 == low[1]
        high == IF n1 >= hi
                THEN IF p_hi + (n1 - (hi - 1)) < edge_resist
                     THEN <<hi - 1, p_hi + (n1 - (hi - 1))>>
                     ELSE <<n1, p_hi + (n1 - (hi - 1))>>
                ELSE <<n1, 0>>
    IN  <<high[1], low[2], high[2]>>

\* One axis of the acceleration edge resistance: the low edge (left or top)
\* is checked first, then the high edge (right or bottom) on the position
\* the first check left.  Yields <<position, low pressure, high pressure>>.
AccelAxis(n, lo, hi, p_lo, p_hi, edge_resist) ==
    LET low == IF n < lo
               THEN IF p_lo + (lo - n) < edge_resist
                    THEN <<lo, p_lo + (lo - n)>>
                    ELSE <<n, 0>>
               ELSE <<n, 0>>
        n1 == low[1]
        high == IF n1 >= hi
                THEN IF p_hi + (n1 - (hi - 1)) < edge_resist
                     THEN <<hi - 1, p_hi + (n1 - (hi - 1))>>
                     ELSE <<n1, 0>>
                ELSE <<n1, 0>>
    IN  <<high[1], low[2], high[2]>>

\* AccelClamp admitting the first pixel beyond the monitor.
AccelClamp_Closed(n, lo, hi) == Max2(lo, Min2(hi, n))

\* No edge resistance: the coordinate is clamped to the monitor, whose last
\* pixel is hi - 1.
AccelClamp(n, lo, hi) == Max2(lo, Min2(hi - 1, n))

\* The position the acceleration computes before edge resistance.
Amplified(st) ==
    <<st.prev_x[1] + IntMul(st.x - st.prev_x[1], st.config.acceleration.multiplier),
      st.prev_y[1] + IntMul(st.y - st.prev_y[1], st.config.acceleration.multiplier)>>

StepAccel(st, xl, ok) ==
    IF ~st.alive THEN st
    ELSE IF st.config.acceleration.enabled /\ st.ctrl_pressed /\ st.prev_x # None
    THEN IF st.x # st.prev_x[1] \/ st.y # st.prev_y[1]
         THEN
         LET edge_resist == st.config.acceleration.edge_resistance
             m == st.mon_list[get_monitor_at(st.mon_list, st.prev_x[1],
                                             st.prev_y[1]) + 1]
             a == Amplified(st)
             p == st.accel_edge_pressure
             h == AccelAxis(a[1], m[1], m[3], p["left"], p["right"], edge_resist)
             v == AccelAxis(a[2], m[2], m[4], p["top"], p["bottom"], edge_resist)
             new_x == IF edge_resist > 0 THEN h[1]
                      ELSE AccelClamp(a[1], m[1], m[3])
             new_y == IF edge_resist > 0 THEN v[1]
                      ELSE AccelClamp(a[2], m[2], m[4])
             st1 == [st EXCEPT !.out.accel = a,
                               !.accel_edge_pressure =
                                   IF edge_resist > 0
                                   THEN [left |-> h[2], right |-> h[3],
                                         top |-> v[2], bottom |-> v[3]]
                                   ELSE @]
         IN  IF new_x # st.x \/ new_y # st.y
             THEN [move_mouse(st1, xl, new_x, new_y, ok)
                       EXCEPT !.x = new_x, !.y = new_y]
             ELSE st1
         ELSE st
    ELSE [st EXCEPT !.accel_edge_pressure = [e \in Edges |-> 0]]

\* Mutant of GestureReady: the cooldown is over at 400 ms sharp.
GestureReady_Inclusive(st) ==
    /\ st.config.monitor_switch.enabled
    /\ st.prev_x # None
    /\ st.shift_pressed
    /\ (st.now - st.last_warp_time) >= SWITCH_COOLDOWN

\* The guard of the switch gesture.
GestureReady(st) ==
    /\ st.config.monitor_switch.enabled
    /\ st.prev_x # None
    /\ st.shift_pressed
    /\ (st.now - st.last_warp_time) > SWITCH_COOLDOWN

\* warp_to_monitor followed by x, y = get_mouse_pos(); a failing query
\* raises.
SwitchTo(st, xl, idx, ok, query_ok, t) ==
    LET st1 == warp_to_monitor(st, xl, idx, st.x, ok, t)
    IN  IF ~query_ok THEN Crash(st1, "get_mouse_pos")
        ELSE [st1 EXCEPT !.x = st1.ptr[1], !.y = st1.ptr[2]]

\* SwitchIndex going round from the first monitor to the last and back.
SwitchIndex_Wraparound(cur, delta, threshold, n) ==
    IF delta < -threshold THEN Some((cur + n - 1) % n)
    ELSE IF delta > threshold THEN Some((cur + 1) % n)
    ELSE None

\* The monitor the gesture switches to: the one before cur on a move to
\* the left, the one after it on a move to the right, none beyond the first
\* and the last of the n monitors.
SwitchIndex(cur, delta, threshold, n) ==
    IF delta < -threshold THEN IF cur > 0 THEN Some(cur - 1) ELSE None
    ELSE IF delta > threshold THEN IF cur < n - 1 THEN Some(cur + 1) ELSE None
    ELSE None

\* ResetOnRepress leaving the cooldown alone.
ResetOnRepress_Never(st) == st

\* Reset cooldown on shift re-press: the modifier is held and was not on the
\* previous iteration.
ResetOnRepress(st) ==
    IF st.shift_pressed /\ ~st.prev_shift_pressed
    THEN [st EXCEPT !.last_warp_time = 0] ELSE st

\* The cooldown reset on a shift re-press, the switch gesture, and the
\* commit of prev_x, prev_y and prev_shift_pressed that follows it.
StepSwitch(st, xl, ok, query_ok, t) ==
    IF ~st.alive THEN st
    ELSE
    LET st0 == ResetOnRepress(st)
        threshold == st0.config.monitor_switch.shift_threshold
        delta == st0.x - st0.prev_x[1]
        cur == get_monitor_at(st0.mon_list, st0.x, st0.y)
        idx == SwitchIndex(cur, delta, threshold, Len(st0.mon_list))
        st1 == IF ~GestureReady(st0) \/ idx = None THEN st0
               ELSE SwitchTo(st0, xl, idx[1], ok, query_ok, t)
    IN  IF ~st1.alive THEN st1
        ELSE [st1 EXCEPT !.prev_x = Some(st1.x), !.prev_y = Some(st1.y),
                         !.prev_shift_pressed = st1.shift_pressed]

\* One axis of the edge wrap.  lo_edge is the edge at the low bound (top or
\* left), hi_edge the opposite one; at_lo and at_hi say whether the pointer
\* is pressed against them; lo_dest and hi_dest are where a wrap from the
\* low and from the high edge goes, lo_flash and hi_flash the bounds the
\* entry flash is shown at.  Yields [st, wrapped], wrapped being the edge
\* that wrapped, or None.
WrapAxis(st, xl, lo_edge, hi_edge, at_lo, at_hi, lo_dest, hi_dest, ok) ==
    IF at_lo \/ at_hi
    THEN
    LET edge == IF at_lo THEN lo_edge ELSE hi_edge
        dest == IF at_lo THEN lo_dest ELSE hi_dest
        r == should_allow_wrap(st.edge_resistance, st.config, edge, st.x, st.y,
                               st.now)
        st1 == [st EXCEPT !.edge_resistance = r.er]
    IN  IF r.allow
        THEN
        LET st2 == move_mouse(st1, xl, dest.x, dest.y, ok)
            st3 == show_cursor_highlight(st2, "edge-wrap", dest.x, dest.y,
                                         dest.flash_edge, dest.flash_pos)
        IN  [st |-> [st3 EXCEPT !.edge_resistance = clear_edge(@, edge)],
             wrapped |-> Some(edge)]
        ELSE [st |-> st1, wrapped |-> None]
    ELSE [st |-> [st EXCEPT !.edge_resistance =
                      clear_edge(clear_edge(@, lo_edge), hi_edge)],
          wrapped |-> None]

Dest(dx, dy, flash_edge, flash_pos) ==
    [x |-> dx, y |-> dy, flash_edge |-> flash_edge, flash_pos |-> flash_pos]

\* WrapVertical against the bounds of the whole screen.
WrapVertical_ScreenBounds(st, xl, ok) ==
    LET m == get_screen_bounds(st.mon_list, st.SCREEN_W, st.SCREEN_H)
        r == WrapAxis(st, xl, "top", "bottom",
                      st.y <= m[2], st.y >= m[4] - 1,
                      Dest(st.x, m[4] - 2, "bottom", m[4]),
                      Dest(st.x, m[2] + 1, "top", m[2]), ok)
    IN  [r.st EXCEPT !.out.wrap_v = r.wrapped]

\* The vertical wrap, against the bounds of the monitor the pointer is on.
WrapVertical(st, xl, ok) ==
    LET m == st.mon_list[get_monitor_at(st.mon_list, st.x, st.y) + 1]
        r == WrapAxis(st, xl, "top", "bottom",
                      st.y <= m[2], st.y >= m[4] - 1,
                      Dest(st.x, m[4] - 2, "bottom", m[4]),
                      Dest(st.x, m[2] + 1, "top", m[2]), ok)
    IN  [r.st EXCEPT !.out.wrap_v = r.wrapped]

\* WrapHorizontal without the cooldown stamp.
WrapHorizontal_NoStamp(st, xl, ok) ==
    LET b == get_screen_bounds(st.mon_list, st.SCREEN_W, st.SCREEN_H)
        r == WrapAxis(st, xl, "left", "right",
                      st.x <= b[1], st.x >= b[3] - 1,
                      Dest(b[3] - 2, st.y, "right", b[3]),
                      Dest(b[1] + 1, st.y, "left", b[1]), ok)
        new_x == IF r.wrapped = Some("left") THEN b[3] - 2 ELSE b[1] + 1
    IN  IF r.wrapped = None THEN r.st
        ELSE [r.st EXCEPT !.out.wrap_h = r.wrapped,
                          !.prev_monitor =
                              Some(get_monitor_at(st.mon_list, new_x, st.y))]

\* The horizontal wrap, against the bounds of the whole screen; a wrap
\* stamps the cooldown and records the monitor of the destination.
WrapHorizontal(st, xl, ok) ==
    LET b == get_screen_bounds(st.mon_list, st.SCREEN_W, st.SCREEN_H)
        r == WrapAxis(st, xl, "left", "right",
                      st.x <= b[1], st.x >= b[3] - 1,
                      Dest(b[3] - 2, st.y, "right", b[3]),
                      Dest(b[1] + 1, st.y, "left", b[1]), ok)
        new_x == IF r.wrapped = Some("left") THEN b[3] - 2 ELSE b[1] + 1
    IN  IF r.wrapped = None THEN r.st
        ELSE [r.st EXCEPT !.out.wrap_h = r.wrapped,
                          !.last_warp_time = st.now,
                          !.prev_monitor =
                              Some(get_monitor_at(st.mon_list, new_x, st.y))]

StepWrap(st, xl, ok_v, ok_h) ==
    IF ~st.alive \/ ~st.config.edge_wrap.enabled THEN st
    ELSE
    LET st1 == IF st.config.edge_wrap.vertical
               THEN WrapVertical(st, xl, ok_v) ELSE st
    IN  IF st1.config.edge_wrap.horizontal
        THEN WrapHorizontal(st1, xl, ok_h) ELSE st1

\* The entry edge of a crossing from rectangle old to rectangle new, by the
\* order of the source's comparisons: <<edge, edge position>>, or None when
\* neither origin coordinate differs.
EntryEdge(new, old) ==
    IF new[1] > old[1] THEN <<"left", new[1]>>
    ELSE IF new[1] < old[1] THEN <<"right", new[3]>>
    ELSE IF new[2] > old[2] THEN <<"top", new[2]>>
    ELSE IF new[2] < old[2] THEN <<"bottom", new[4]>>
    ELSE None

\* is_natural_crossing: the pointer is within edge_threshold of the entry
\* edge of the new rectangle.
IsNaturalCrossing(new, old, cx, cy, edge_threshold) ==
    IF new[1] > old[1] THEN cx < new[1] + edge_threshold
    ELSE IF new[1] < old[1] THEN cx > new[3] - edge_threshold
    ELSE IF new[2] > old[2] THEN cy < new[2] + edge_threshold
    ELSE IF new[2] < old[2] THEN cy > new[4] - edge_threshold
    ELSE FALSE

\* The body of the crossing detection once the monitor changed outside the
\* cooldown and highlights are enabled.
Classify(st, cur_mon) ==
    LET new == st.mon_list[cur_mon + 1]
        old == st.mon_list[st.prev_monitor[1] + 1]
        e == EntryEdge(new, old)
    IN  IF IsNaturalCrossing(new, old, st.x, st.y,
                             st.config.highlight.natural_cross_threshold)
        THEN [show_edge_flash(st, "natural-cross", e[1],
                              IF e[1] \in {"left", "right"} THEN st.y ELSE st.x,
                              e[2])
                  EXCEPT !.out.cross = "natural", !.last_warp_time = st.now]
        ELSE
        LET st1 == IF st.config.highlight.monitor_cross_style = "brackets"
                   THEN show_corner_brackets(st, "teleport", st.x, st.y)
                   ELSE IF e = None THEN st
                   ELSE show_edge_flash(st, "teleport", e[1],
                              IF e[1] \in {"left", "right"} THEN st.y ELSE st.x,
                              e[2])
        IN  [st1 EXCEPT !.out.cross = "teleport", !.last_warp_time = st.now]

\* The crossing detection, then prev_monitor = cur_mon and
\* edge_resistance.update(x, y, now).
StepClassify(st) ==
    IF ~st.alive THEN st
    ELSE
    LET cur_mon == get_monitor_at(st.mon_list, st.x, st.y)
        st1 == IF /\ st.prev_monitor # None
                  /\ Some(cur_mon) # st.prev_monitor
                  /\ (st.now - st.last_warp_time) > CROSS_COOLDOWN
                  /\ st.config.highlight.enabled
               THEN IF st.prev_monitor[1] >= Len(st.mon_list)
                    THEN Crash(st, "mon_list[prev_monitor]")
                    ELSE Classify(st, cur_mon)
               ELSE st
    IN  IF ~st1.alive THEN st1
        ELSE [st1 EXCEPT !.prev_monitor = Some(cur_mon),
                         !.edge_resistance =
                             EdgeResistance_update(@, st1.x, st1.y, st1.now)]

\* What the iteration started from, once the events are drained: the
\* fields the environment asks to be kept (env.watch), for the properties
\* that compare a tick's outcome with the state it was computed from.
Watched(st, watch) ==
    [prev |-> IF "prev" \in watch THEN <<st.prev_x, st.prev_y>> ELSE None,
     prev_monitor |-> IF "prev_monitor" \in watch THEN st.prev_monitor ELSE None,
     last_warp_time |-> IF "last_warp_time" \in watch
                        THEN Some(st.last_warp_time) ELSE None,
     prev_shift_pressed |-> "prev_shift_pressed" \in watch
                            /\ st.prev_shift_pressed,
     accel_edge_pressure |-> IF "accel_edge_pressure" \in watch
                             THEN Some(st.accel_edge_pressure) ELSE None,
     edge_resistance |-> IF "edge_resistance" \in watch
                         THEN Some(st.edge_resistance) ELSE None]

\* The top of the loop: the pending RandR events are drained, then the
\* pointer is sampled.
StepBegin(st, n, s, ok, en, t, watch) ==
    LET st0 == [st EXCEPT !.out = NoOut]
        d == DrainEvents(st0, n, t, en)
        st1 == [d EXCEPT !.out.pre = Some(Watched(d, watch))]
    IN  StepSample(st1, s, ok, t)

\* One whole iteration of the loop, up to the sleep.  s is the pointer
\* sample, f the outcome of each external call of the iteration, en what an
\* enumeration of the monitors yields, n the number of RandR events pending.
Iteration(st, xl, n, s, f, en, t, watch) ==
    LET st2 == StepBegin(st, n, s, f.query, en, t, watch)
        st3 == StepAccel(st2, xl, f.accel)
        st4 == StepSwitch(st3, xl, f.switch, f.requery, t)
        st5 == StepWrap(st4, xl, f.wrap_v, f.wrap_h)
    IN  StepClassify(st5)

(***************************************************************************)
(* Configurations (the keys the loop reads) and monitor layouts.           *)
(***************************************************************************)
\* The shape of DEFAULT_CONFIG, with thresholds scaled to small monitors:
\* the multiplier 2.0 is <<2, 1>>.
BaseConfig ==
    [edge_wrap |-> [enabled |-> TRUE, horizontal |-> TRUE, vertical |-> TRUE],
     edge_resistance |-> [enabled |-> FALSE, mode |-> "distance",
                          time_delay |-> 2, distance_threshold |-> 3,
                          velocity_threshold |-> 2],
     monitor_switch |-> [enabled |-> TRUE, shift_threshold |-> 1],
     acceleration |-> [enabled |-> TRUE, multiplier |-> <<2, 1>>,
                       edge_resistance |-> 3],
     highlight |-> [enabled |-> TRUE, style |-> "edge_flash",
                    monitor_cross_style |-> "brackets",
                    natural_cross_threshold |-> 2],
     focus_warp |-> [enabled |-> TRUE]]

Single == <<<<0, 0, MW, MH>>>>

Dual == <<<<0, 0, MW, MH>>, <<MW, 0, 2 * MW, MH>>>>

\* Two monitors side by side, the right one listed first by xrandr.
DualRightFirst == <<<<MW, 0, 2 * MW, MH>>, <<0, 0, MW, MH>>>>

\* The points of a layout: the pixels of its monitors.
PointsOf(xl) ==
    UNION {{<<px, py>> : px \in (xl[i][1])..(xl[i][3] - 1),
                         py \in (xl[i][2])..(xl[i][4] - 1)} : i \in 1..Len(xl)}

\* The X server keeps the pointer on the pixels of its outputs.
OnLayout(xl, p) ==
    \E i \in 1..Len(xl) : /\ xl[i][1] <= p[1] /\ p[1] < xl[i][3]
                          /\ xl[i][2] <= p[2] /\ p[2] < xl[i][4]

\* Every external call of an iteration succeeds.
AllOk ==
    [query |-> TRUE, accel |-> TRUE, switch |-> TRUE, requery |-> TRUE,
     wrap_v |-> TRUE, wrap_h |-> TRUE]

(***************************************************************************)
(* History of the switch directives: when the last one was issued          *)
(* (switch_at), whether a released-to-held transition of the shift         *)
(* modifier was sampled since (repressed), and for the two most recent     *)
(* directives the time between them (gap) and whether such a transition    *)
(* was sampled after the first, up to the tick of the second               *)
(* (gap_repressed).                                                        *)
(***************************************************************************)
NoHist ==
    [switch_at |-> None, repressed |-> FALSE, gap |-> None,
     gap_repressed |-> FALSE]

History(h, was_pressed, s, o, t) ==
    LET repress == o.raw # None /\ s.shift /\ ~was_pressed
    IN  IF o.switch # None
        THEN [switch_at |-> Some(t), repressed |-> FALSE,
              gap |-> IF h.switch_at = None THEN None
                      ELSE Some(t - h.switch_at[1]),
              gap_repressed |-> h.switch_at # None /\ (h.repressed \/ repress)]
        ELSE [h EXCEPT !.repressed = @ \/ repress]

(***************************************************************************)
(* The state after the module is loaded: refresh_monitor_geometry(True)    *)
(* has run once, every global has its initial value.                       *)
(***************************************************************************)
\* A configuration file tomllib cannot parse: load_config prints the error
\* and calls sys.exit(1).
Malformed == [malformed |-> TRUE]

Loaded(cfg, xl, kind) ==
    refresh_monitor_geometry(
        [config |-> cfg, mon_list |-> <<>>, SCREEN_W |-> 0, SCREEN_H |-> 0,
         last_geometry_refresh |-> 0, prev_x |-> None, prev_y |-> None,
         last_warp_time |-> 0, prev_shift_pressed |-> FALSE,
         accel_edge_pressure |-> [e \in Edges |-> 0], prev_monitor |-> None,
         edge_resistance |-> EdgeResistance_reset, x |-> 0, y |-> 0,
         shift_pressed |-> FALSE, ctrl_pressed |-> FALSE, now |-> 0,
         alive |-> TRUE, ptr |-> <<0, 0>>, out |-> NoOut],
        TRUE, StartTime, EnumOutcome(kind, xl)).st

\* The display lock is free, nobody is inside a call on the connection d,
\* the focus listener waits for an event and no indicator is being animated.
NoThreads ==
    [lock |-> "free", using |-> {}, listener |-> "idle", cur |-> None,
     last_focus_warp_time |-> 0, animations |-> 0]

InitIn(e) ==
    /\ env = e
    /\ xlayout \in e.layouts
    /\ pending = 0
    /\ hist = NoHist
    /\ threads = NoThreads
    /\ clock = StartTime
    /\ pc = "loop"
    /\ \E cfg \in e.cfgs \ {Malformed},
          kind \in e.enums \ {"raise"} :
         LET st == Loaded(cfg, xlayout, kind)
         IN  /\ config = st.config
             /\ mon_list = st.mon_list
             /\ SCREEN_W = st.SCREEN_W
             /\ SCREEN_H = st.SCREEN_H
             /\ last_geometry_refresh = st.last_geometry_refresh
             /\ prev_x = st.prev_x
             /\ prev_y = st.prev_y
             /\ last_warp_time = st.last_warp_time
             /\ prev_shift_pressed = st.prev_shift_pressed
             /\ accel_edge_pressure = st.accel_edge_pressure
             /\ prev_monitor = st.prev_monitor
             /\ edge_resistance = st.edge_resistance
             /\ x = st.x
             /\ y = st.y
             /\ shift_pressed = st.shift_pressed
             /\ ctrl_pressed = st.ctrl_pressed
             /\ now = st.now
             /\ alive = st.alive
             /\ ptr = st.ptr
             /\ out = st.out

(***************************************************************************)
(* The actions.                                                            *)
(***************************************************************************)
\* The pointer samples the environment offers: a pixel of a monitor, with
\* the two modifiers.
Samples ==
    {[x |-> p[1], y |-> p[2], shift |-> m[1], ctrl |-> m[2]] :
        p \in {q \in env.points : OnLayout(xlayout, q)}, m \in env.mods}

\* The model follows the positions the loop computes up to MaxOvershoot
\* pixels beyond the screen.
WithinReach(st, xl) ==
    /\ -MaxOvershoot <= st.x /\ st.x < ScreenDims(xl)[1] + MaxOvershoot
    /\ -MaxOvershoot <= st.y /\ st.y < ScreenDims(xl)[2] + MaxOvershoot

\* One iteration of the loop and the sleep after it.
Tick ==
    /\ alive
    /\ pc = "loop"
    /\ \E s \in Samples, f \in env.outcomes, kind \in env.enums, dt \in env.dts :
         /\ clock + dt <= MaxTime
         /\ \E st \in {Iteration(State, xlayout, pending, s, f,
                                  EnumOutcome(kind, xlayout), clock, env.watch)} :
                WithinReach(st, xlayout) /\ Install(st)
         /\ hist' = History(hist, prev_shift_pressed, s, out', clock)
         /\ clock' = clock + dt
    /\ pending' = 0
    /\ UNCHANGED <<pc, xlayout, threads, env>>

\* reload_config, run by SIGHUP between two iterations: the configuration
\* file holds cfg.  SystemExit raised by load_config leaves the handler and
\* main(), where only KeyboardInterrupt is caught.
reload_config(st, cfg, t, en) ==
    IF cfg = Malformed THEN Crash(st, "sys.exit")
    ELSE refresh_monitor_geometry([st EXCEPT !.config = cfg], TRUE, t, en).st

SigHup ==
    /\ alive
    /\ pc = "loop"
    /\ \E cfg \in env.cfgs, kind \in env.enums :
         \E st \in {reload_config(State, cfg, clock,
                                   EnumOutcome(kind, xlayout))} : Install(st)
    /\ UNCHANGED <<pc, clock, xlayout, pending, hist, threads, env>>

\* The monitors are rearranged (or only a mode changes): the X server
\* queues a RandR screen-change event.
LayoutChange ==
    /\ alive
    /\ pending < MaxPending
    /\ xlayout' \in env.layouts
    /\ pending' = pending + 1
    /\ UNCHANGED <<config, mon_list, SCREEN_W, SCREEN_H, last_geometry_refresh,
                   prev_x, prev_y, last_warp_time, prev_shift_pressed,
                   accel_edge_pressure, prev_monitor, edge_resistance, x, y,
                   shift_pressed, ctrl_pressed, now, pc, alive, clock, ptr,
                   out, hist, threads, env>>

Next == Tick \/ SigHup \/ LayoutChange

\* Two monitors, every feature at its default, every call succeeding.
EnvDefault ==
    [cfgs |-> {BaseConfig}, layouts |-> {Dual, Single},
     points |-> {<<0, 1>>, <<MW - 1, 1>>, <<MW, 1>>, <<2 * MW - 1, 1>>},
     mods |-> BOOLEAN \X BOOLEAN,
     outcomes |-> {AllOk}, enums |-> {"ok"},
     dts |-> {SWITCH_COOLDOWN + 1}, watch |-> {}]

Init == InitIn(EnvDefault)

Spec == Init /\ [][Next]_vars

\* The switch gesture: one row of pixels across two monitors, the shift
\* modifier pressed or not, acceleration off.
SwitchConfig == [BaseConfig EXCEPT !.acceleration.enabled = FALSE,
                                   !.edge_wrap.vertical = FALSE]

EnvSwitch ==
    [cfgs |-> {SwitchConfig}, layouts |-> {Dual},
     points |-> {<<px, 1>> : px \in 0..(2 * MW - 1)},
     mods |-> BOOLEAN \X {FALSE},
     outcomes |-> {AllOk}, enums |-> {"ok"},
     dts |-> {1, SWITCH_COOLDOWN + 1}, watch |-> {}]

InitSwitch == InitIn(EnvSwitch)

SpecSwitch == InitSwitch /\ [][Next]_vars

(***************************************************************************)
(* C1.  As claimed: any two switch directives are more than 400 ms apart,  *)
(* whatever the modifier does between them.                                *)
(***************************************************************************)
C1_AnyTwoSwitchesApart ==
    hist.gap # None => hist.gap[1] > SWITCH_COOLDOWN

\* C1, amended: two consecutive switch directives are more than 400 ms
\* apart when no released-to-held transition of the shift modifier was
\* sampled after the first of them (such a transition resets the cooldown).
C1_SwitchesApartWhileHeld ==
    (hist.gap # None /\ ~hist.gap_repressed) => hist.gap[1] > SWITCH_COOLDOWN

\* C1 witness: a second switch directive fired with the modifier held
\* throughout since the first.
C1_Witness ==
    /\ hist.gap # None
    /\ ~hist.gap_repressed
    /\ out.switch # None

(***************************************************************************)
(* Shared vocabulary of the properties.                                    *)
(***************************************************************************)
\* The state is the one an iteration of the loop left: no SIGHUP ran since.
JustTicked ==
    /\ alive
    /\ out.raw # None
    /\ (out.refresh = None \/ ~out.refresh[1].force)

\* The monitor the edge wrap of the tick used.
WrapMonitor == mon_list[get_monitor_at(mon_list, x, y) + 1]

\* The edge the tick evaluated the pointer as pressed against, per axis:
\* the top and left bands are tested before the bottom and right ones.
PressedAt(e) ==
    LET m == WrapMonitor
        b == get_screen_bounds(mon_list, SCREEN_W, SCREEN_H)
    IN  /\ config.edge_wrap.enabled
        /\ CASE e = "top" -> config.edge_wrap.vertical /\ y <= m[2]
             [] e = "bottom" -> /\ config.edge_wrap.vertical
                                /\ ~(y <= m[2]) /\ y >= m[4] - 1
             [] e = "left" -> config.edge_wrap.horizontal /\ x <= b[1]
             [] e = "right" -> /\ config.edge_wrap.horizontal
                               /\ ~(x <= b[1]) /\ x >= b[3] - 1

\* The tick issued an edge wrap from edge e.
Wrapped(e) == out.wrap_v = Some(e) \/ out.wrap_h = Some(e)

\* The EdgeResistance instance the tick started from (watched).
ErBefore == out.pre[1].edge_resistance[1]

(***************************************************************************)
(* Distance-mode resistance on one monitor.                                *)
(***************************************************************************)
DistanceConfig ==
    [BaseConfig EXCEPT !.edge_resistance.enabled = TRUE,
                       !.edge_resistance.mode = "distance",
                       !.acceleration.enabled = FALSE,
                       !.monitor_switch.enabled = FALSE]

EnvDistance ==
    [cfgs |-> {DistanceConfig}, layouts |-> {Single},
     points |-> PointsOf(Single), mods |-> {<<FALSE, FALSE>>},
     outcomes |-> {AllOk}, enums |-> {"ok"}, dts |-> {0},
     watch |-> {"edge_resistance"}]

InitDistance == InitIn(EnvDistance)

SpecDistance == InitDistance /\ [][Next]_vars

\* The movement along edge e between the previous committed sample and this
\* tick's position: |dy| for left and right, |dx| for top and bottom.
C2_Orthogonal(e) ==
    IF ErBefore.last_pos = None THEN 0
    ELSE IF e \in {"left", "right"} THEN Abs(y - ErBefore.last_pos[2])
         ELSE Abs(x - ErBefore.last_pos[1])

C2_Cumulative(e) == ErBefore.edge_pressure[e] + C2_Orthogonal(e)

(***************************************************************************)
(* C2.  Distance mode: on a tick with the pointer pressed against an edge  *)
(* the orthogonal movement since the previous committed sample is added to *)
(* that edge's pressure; the wrap is denied while the cumulative pressure  *)
(* is below the threshold and the pressure keeps the sum; it is allowed on *)
(* the tick the sum reaches the threshold, and the pressure is then 0.     *)
(***************************************************************************)
C2_DistanceMode ==
    (/\ JustTicked
     /\ config.edge_resistance.enabled
     /\ config.edge_resistance.mode = "distance")
    => \A e \in Edges :
         PressedAt(e) =>
            IF C2_Cumulative(e) < config.edge_resistance.distance_threshold
            THEN /\ ~Wrapped(e)
                 /\ edge_resistance.edge_pressure[e] = C2_Cumulative(e)
            ELSE /\ Wrapped(e)
                 /\ edge_resistance.edge_pressure[e] = 0

\* C2 witness: pinned at the top edge, the pressure built up by earlier
\* denied ticks is one pixel short of the threshold, the pointer moved one
\* pixel along the edge, and the wrap is allowed with the pressure back at 0.
C2_Witness ==
    /\ JustTicked
    /\ config.edge_resistance.mode = "distance"
    /\ PressedAt("top")
    /\ ErBefore.edge_pressure["top"] = config.edge_resistance.distance_threshold - 1
    /\ C2_Orthogonal("top") = 1
    /\ Wrapped("top")
    /\ edge_resistance.edge_pressure["top"] = 0

(***************************************************************************)
(* Acceleration across two monitors: a row of pixels and the two ends of   *)
(* a column, the control modifier pressed or not; the switch and the wrap  *)
(* are off, so the position the tick ends with is the accelerated one.     *)
(***************************************************************************)
AccelConfig ==
    [BaseConfig EXCEPT !.monitor_switch.enabled = FALSE,
                       !.edge_wrap.enabled = FALSE]

\* The multiplier 1.5, whose products int() truncates.
AccelConfigFraction == [AccelConfig EXCEPT !.acceleration.multiplier = <<3, 2>>]

EnvAccel ==
    [cfgs |-> {AccelConfig, AccelConfigFraction}, layouts |-> {Dual},
     points |-> {<<px, 1>> : px \in 0..(2 * MW - 1)}
                \cup {<<1, 0>>, <<1, MH - 1>>},
     mods |-> {FALSE} \X BOOLEAN,
     outcomes |-> {AllOk}, enums |-> {"ok"}, dts |-> {0},
     watch |-> {"prev", "accel_edge_pressure"}]

InitAccel == InitIn(EnvAccel)

SpecAccel == InitAccel /\ [][Next]_vars

\* The previous position the tick started from (watched), and the monitor
\* the acceleration is computed against.
PrevBefore == <<out.pre[1].prev[1][1], out.pre[1].prev[2][1]>>

AccelMonitor ==
    mon_list[get_monitor_at(mon_list, PrevBefore[1], PrevBefore[2]) + 1]

\* trunc(d * multiplier), the multiplier being a fraction.
C3_Trunc(d) ==
    LET n == d * config.acceleration.multiplier[1]
        q == Abs(n) \div config.acceleration.multiplier[2]
    IN  IF n < 0 THEN -q ELSE q

\* previous position + trunc(delta * M), delta being raw sample - previous.
C3_Amplified ==
    <<PrevBefore[1] + C3_Trunc(out.raw[1] - PrevBefore[1]),
      PrevBefore[2] + C3_Trunc(out.raw[2] - PrevBefore[2])>>

\* By how much the amplified position lies beyond edge e of the monitor
\* (0 when it does not).
C3_Overflow(e) ==
    LET m == AccelMonitor
        a == C3_Amplified
    IN  CASE e = "left" -> IF a[1] < m[1] THEN m[1] - a[1] ELSE 0
          [] e = "right" -> IF a[1] >= m[3] THEN a[1] - (m[3] - 1) ELSE 0
          [] e = "top" -> IF a[2] < m[2] THEN m[2] - a[2] ELSE 0
          [] e = "bottom" -> IF a[2] >= m[4] THEN a[2] - (m[4] - 1) ELSE 0

\* The coordinate of the tick's position across edge e, the same coordinate
\* of the amplified position, and the monitor's last pixel at that edge.
C3_Coord(e) == IF e \in {"left", "right"} THEN x ELSE y

C3_AmplifiedCoord(e) ==
    IF e \in {"left", "right"} THEN C3_Amplified[1] ELSE C3_Amplified[2]

C3_Boundary(e) ==
    LET m == AccelMonitor
    IN  CASE e = "left" -> m[1]
          [] e = "right" -> m[3] - 1
          [] e = "top" -> m[2]
          [] e = "bottom" -> m[4] - 1

C3_Cumulative(e) ==
    out.pre[1].accel_edge_pressure[1][e] + C3_Overflow(e)

\* The tick ran the acceleration from a previous position on a monitor.
C3_Accelerating ==
    /\ JustTicked
    /\ config.acceleration.enabled
    /\ config.acceleration.edge_resistance > 0
    /\ ctrl_pressed
    /\ out.pre[1].prev[1] # None
    /\ Contains(AccelMonitor, PrevBefore[1], PrevBefore[2])

(***************************************************************************)
(* C3.  Acceleration hold-release: when the amplified position lies beyond *)
(* an edge of the monitor of the previous position, the overflow is added  *)
(* to that edge's pressure; below the edge resistance the position is      *)
(* clamped onto the monitor's boundary and the pressure keeps the sum; at  *)
(* or above it the amplified coordinate passes unclamped in that tick and  *)
(* the pressure is 0.                                                      *)
(***************************************************************************)
C3_HoldRelease ==
    C3_Accelerating
    => \A e \in Edges :
         C3_Overflow(e) > 0 =>
            IF C3_Cumulative(e) < config.acceleration.edge_resistance
            THEN /\ C3_Coord(e) = C3_Boundary(e)
                 /\ accel_edge_pressure[e] = C3_Cumulative(e)
            ELSE /\ C3_Coord(e) = C3_AmplifiedCoord(e)
                 /\ accel_edge_pressure[e] = 0

\* C3 witness: the right edge held the pointer on an earlier tick (pressure
\* left over), this tick's overflow brings the sum to the edge resistance,
\* and the pointer passes beyond the monitor with the pressure back at 0.
C3_Witness ==
    /\ C3_Accelerating
    /\ out.pre[1].accel_edge_pressure[1]["right"] > 0
    /\ C3_Overflow("right") > 0
    /\ C3_Cumulative("right") >= config.acceleration.edge_resistance
    /\ x = C3_Amplified[1]
    /\ x > C3_Boundary("right")
    /\ accel_edge_pressure["right"] = 0

(***************************************************************************)
(* Velocity-mode resistance on one monitor: the clock advances by one or   *)
(* two units per tick.                                                     *)
(***************************************************************************)
VelocityConfig ==
    [BaseConfig EXCEPT !.edge_resistance.enabled = TRUE,
                       !.edge_resistance.mode = "velocity",
                       !.acceleration.enabled = FALSE,
                       !.monitor_switch.enabled = FALSE]

EnvVelocity ==
    [cfgs |-> {VelocityConfig}, layouts |-> {Single},
     points |-> {<<px, 0>> : px \in 0..(MW - 1)}
                \cup {<<0, 2>>, <<2, 2>>, <<MW - 1, MH - 1>>},
     mods |-> {<<FALSE, FALSE>>},
     outcomes |-> {AllOk}, enums |-> {"ok"}, dts |-> {1, 2},
     watch |-> {"edge_resistance"}]

InitVelocity == InitIn(EnvVelocity)

SpecVelocity == InitVelocity /\ [][Next]_vars

\* The squared distance between this sample and the previous committed one,
\* and the time elapsed between them.
C4_DistanceSquared ==
    (x - ErBefore.last_pos[1]) * (x - ErBefore.last_pos[1])
    + (y - ErBefore.last_pos[2]) * (y - ErBefore.last_pos[2])

C4_Elapsed == now - ErBefore.last_time[1]

\* distance / elapsed >= velocity_threshold, for a threshold >= 0.
C4_FastEnough ==
    C4_DistanceSquared >=
        (config.edge_resistance.velocity_threshold * C4_Elapsed)
        * (config.edge_resistance.velocity_threshold * C4_Elapsed)

(***************************************************************************)
(* C4.  Velocity mode: on a tick with the pointer at a wrap edge and a     *)
(* previous committed sample, the wrap is allowed if and only if the       *)
(* distance from that sample divided by the time since is at least the     *)
(* velocity threshold (equality allows).                                   *)
(***************************************************************************)
C4_VelocityMode ==
    (/\ JustTicked
     /\ config.edge_resistance.enabled
     /\ config.edge_resistance.mode = "velocity"
     /\ ErBefore.last_pos # None
     /\ C4_Elapsed > 0)
    => \A e \in Edges : PressedAt(e) => (Wrapped(e) <=> C4_FastEnough)

\* C4 witness: a wrap allowed at exactly the threshold velocity.
C4_Witness ==
    /\ JustTicked
    /\ config.edge_resistance.mode = "velocity"
    /\ ErBefore.last_pos # None
    /\ C4_Elapsed > 0
    /\ C4_DistanceSquared =
         (config.edge_resistance.velocity_threshold * C4_Elapsed)
         * (config.edge_resistance.velocity_threshold * C4_Elapsed)
    /\ \E e \in Edges : PressedAt(e) /\ Wrapped(e)

(***************************************************************************)
(* Monitor crossings: side-by-side monitors, a vertical stack whose lower  *)
(* monitor is shifted right by one pixel, and two outputs with the same    *)
(* origin (a small one mirrored into the corner of a large one).  Edge     *)
(* wrap, acceleration and the switch gesture are off.                      *)
(***************************************************************************)
StackOffset == <<<<0, 0, MW, MH>>, <<1, MH, MW + 1, 2 * MH>>>>

SameOrigin == <<<<0, 0, 2, 2>>, <<0, 0, MW, MH>>>>

CrossConfig ==
    [BaseConfig EXCEPT !.edge_wrap.enabled = FALSE,
                       !.acceleration.enabled = FALSE,
                       !.monitor_switch.enabled = FALSE]

CrossConfigFlash ==
    [CrossConfig EXCEPT !.highlight.monitor_cross_style = "edge_flash"]

EnvCross ==
    [cfgs |-> {CrossConfig, CrossConfigFlash},
     layouts |-> {Dual, StackOffset, SameOrigin},
     points |-> {<<1, 1>>, <<MW - 1, 1>>, <<MW, 1>>, <<2 * MW - 1, 1>>,
                 <<1, MH - 1>>, <<MW - 1, MH - 1>>, <<1, MH>>, <<MW - 1, MH>>,
                 <<1, 2 * MH - 1>>},
     mods |-> {<<FALSE, FALSE>>},
     outcomes |-> {AllOk}, enums |-> {"ok"}, dts |-> {2},
     watch |-> {"prev_monitor"}]

InitCross == InitIn(EnvCross)

SpecCross == InitCross /\ [][Next]_vars

\* The rectangles the classifier compared: the pointer's monitor and the
\* monitor recorded by the previous tick.
C5_New == mon_list[get_monitor_at(mon_list, x, y) + 1]

C5_Old == mon_list[out.pre[1].prev_monitor[1] + 1]

\* The edges of the new rectangle that lie on the old rectangle: the two
\* touch along the edge and overlap in the other direction.
C5_SharedEdges ==
    LET n == C5_New
        o == C5_Old
        xs == n[1] < o[3] /\ o[1] < n[3]
        ys == n[2] < o[4] /\ o[2] < n[4]
    IN  {e \in Edges :
           CASE e = "left" -> n[1] = o[3] /\ ys
             [] e = "right" -> n[3] = o[1] /\ ys
             [] e = "top" -> n[2] = o[4] /\ xs
             [] e = "bottom" -> n[4] = o[2] /\ xs}

\* Where edge e of the new rectangle lies.
C5_EdgePos(e) ==
    CASE e = "left" -> C5_New[1]
      [] e = "right" -> C5_New[3]
      [] e = "top" -> C5_New[2]
      [] e = "bottom" -> C5_New[4]

\* The pointer is less than natural_cross_threshold away from edge e.
C5_InBand(e) ==
    LET d == CASE e = "left" -> x - C5_New[1]
               [] e = "right" -> C5_New[3] - x
               [] e = "top" -> y - C5_New[2]
               [] e = "bottom" -> C5_New[4] - y
    IN  d < config.highlight.natural_cross_threshold

\* The tick ran the classifier on a monitor change.
C5_Classified ==
    /\ JustTicked
    /\ out.cross # "none"
    /\ out.pre[1].prev_monitor # None
    /\ out.pre[1].prev_monitor[1] < Len(mon_list)

(***************************************************************************)
(* C5.  Crossing classifier: an arrival within natural_cross_threshold of  *)
(* the boundary shared with the old monitor is natural, with an edge flash *)
(* at that boundary; an arrival elsewhere on the new monitor is a          *)
(* teleport; rectangles with the same origin give a teleport.              *)
(***************************************************************************)
C5_Classifier ==
    C5_Classified =>
        LET near == {e \in C5_SharedEdges : C5_InBand(e)}
        IN  /\ near # {} =>
                 /\ out.cross = "natural"
                 /\ \E e \in near :
                      \E i \in 1..Len(out.indicators) :
                         /\ out.indicators[i].kind = "edge-flash"
                         /\ out.indicators[i].edge = e
                         /\ out.indicators[i].edge_pos = Some(C5_EdgePos(e))
            /\ near = {} => out.cross = "teleport"
            /\ (C5_New[1] = C5_Old[1] /\ C5_New[2] = C5_Old[2])
                 => out.cross = "teleport"

(***************************************************************************)
(* get_monitor_at over the lists of one or two rectangles with corners in   *)
(* 0..GeoMax (overlapping, touching, apart), every feature off.  The X     *)
(* server alternates between that layout and one output covering the whole *)
(* square, so the pointer is also sampled where no rectangle of a          *)
(* not-yet-refreshed mon_list lies.                                        *)
(***************************************************************************)
GeoRects ==
    {r \in (0..GeoMax) \X (0..GeoMax) \X (0..GeoMax) \X (0..GeoMax) :
        r[1] < r[3] /\ r[2] < r[4]}

\* xrandr lists the outputs in any order; listing the one further left (or,
\* at the same x, further up) last is left to the layouts that test the sort.
GeoLayouts ==
    {<<r>> : r \in GeoRects}
    \cup {l \in GeoRects \X GeoRects : ~KeyLess(l[2], l[1])}

GeoFull == <<<<0, 0, GeoMax, GeoMax>>>>

GeoConfig ==
    [BaseConfig EXCEPT !.edge_wrap.enabled = FALSE,
                       !.acceleration.enabled = FALSE,
                       !.monitor_switch.enabled = FALSE,
                       !.highlight.enabled = FALSE]

EnvGeometry(xl) ==
    [cfgs |-> {GeoConfig}, layouts |-> {xl, GeoFull},
     points |-> {<<c, c>> : c \in 0..(GeoMax - 1)} \cup {<<0, GeoMax - 1>>},
     mods |-> {<<FALSE, FALSE>>},
     outcomes |-> {AllOk}, enums |-> {"ok"}, dts |-> {0}, watch |-> {}]

InitGeometry == \E xl \in GeoLayouts : InitIn(EnvGeometry(xl))

SpecGeometry == InitGeometry /\ [][Next]_vars

\* The points get_monitor_at is asked about: the square and one pixel
\* around it.
C6_Points == ((-1)..GeoMax) \X ((-1)..GeoMax)

\* Rectangle number i (from 0) of mon_list contains p, upper bounds excluded.
C6_Inside(i, p) ==
    /\ mon_list[i + 1][1] <= p[1] /\ p[1] < mon_list[i + 1][3]
    /\ mon_list[i + 1][2] <= p[2] /\ p[2] < mon_list[i + 1][4]

\* The squared distance from p to the centre pixel of rectangle number i.
C6_Distance(i, p) ==
    LET ccx == (mon_list[i + 1][1] + mon_list[i + 1][3]) \div 2
        ccy == (mon_list[i + 1][2] + mon_list[i + 1][4]) \div 2
    IN  (p[1] - ccx) * (p[1] - ccx) + (p[2] - ccy) * (p[2] - ccy)

(***************************************************************************)
(* C6.  For every point and every non-empty monitor list, get_monitor_at   *)
(* returns an index i with 0 <= i < monitor count; when some rectangle     *)
(* contains the point the returned one contains it, otherwise no centre is *)
(* closer to the point than the returned rectangle's.                      *)
(***************************************************************************)
C6_MonitorAt ==
    Len(mon_list) > 0 =>
        \A p \in C6_Points :
            LET i == get_monitor_at(mon_list, p[1], p[2])
                all == 0..(Len(mon_list) - 1)
            IN  /\ i \in all
                /\ (\E j \in all : C6_Inside(j, p)) => C6_Inside(i, p)
                /\ (\A j \in all : ~C6_Inside(j, p))
                     => \A j \in all : C6_Distance(i, p) <= C6_Distance(j, p)

\* C6 witness: a tick sampled the pointer where no rectangle of mon_list
\* lies and recorded the second monitor, whose centre is strictly nearer.
C6_Witness ==
    /\ JustTicked
    /\ Len(mon_list) = 2
    /\ \A j \in 0..1 : ~C6_Inside(j, <<x, y>>)
    /\ prev_monitor = Some(1)
    /\ C6_Distance(1, <<x, y>>) < C6_Distance(0, <<x, y>>)

(***************************************************************************)
(* Geometry refresh: the X layout alternates between one and two monitors, *)
(* RandR events and SIGHUPs arrive at any time, every feature is off.      *)
(***************************************************************************)
EnvRefresh ==
    [cfgs |-> {GeoConfig}, layouts |-> {Single, Dual},
     points |-> {<<1, 1>>, <<MW - 1, 1>>},
     mods |-> {<<FALSE, FALSE>>},
     outcomes |-> {AllOk}, enums |-> {"ok", "no_xrandr", "none"}, dts |-> {1},
     watch |-> {}]

InitRefresh == InitIn(EnvRefresh)

SpecRefresh == InitRefresh /\ [][Next]_vars

(***************************************************************************)
(* C7.  refresh_monitor_geometry(force=False) called less than 200 ms      *)
(* after the previous accepted refresh returns False whatever the layout   *)
(* has become: an iteration that drains RandR events within the window     *)
(* leaves mon_list, the screen size and the time of the accepted refresh   *)
(* as they were, and every non-forced call made inside the window returned *)
(* False.                                                                  *)
(***************************************************************************)
C7_DebouncedRefresh ==
    [][/\ (/\ pending > 0
           /\ pending' = 0
           /\ clock - last_geometry_refresh < GEOMETRY_REFRESH_DEBOUNCE)
          => /\ out'.refresh # None
             /\ ~out'.refresh[1].force
             /\ ~out'.refresh[1].ret
             /\ mon_list' = mon_list
             /\ SCREEN_W' = SCREEN_W /\ SCREEN_H' = SCREEN_H
             /\ last_geometry_refresh' = last_geometry_refresh
       /\ (/\ out'.refresh # None
           /\ ~out'.refresh[1].force
           /\ out'.refresh[1].since < GEOMETRY_REFRESH_DEBOUNCE)
          => ~out'.refresh[1].ret]_vars

\* C7 witness: a non-forced call 100 ms after the accepted refresh returned
\* False although the layout of the X server is no longer mon_list.
C7_Witness ==
    /\ JustTicked
    /\ out.refresh # None
    /\ ~out.refresh[1].force
    /\ out.refresh[1].since = GEOMETRY_REFRESH_DEBOUNCE - 1
    /\ ~out.refresh[1].ret
    /\ mon_list # SortMonitors(xlayout)

(***************************************************************************)
(* The switch gesture on two 1920x1080 monitors side by side, with         *)
(* shift_threshold 100: the pointer is sampled on either side of the       *)
(* boundary and 150 pixels to the right of either place.                   *)
(***************************************************************************)
FullHD == <<<<0, 0, 1920, 1080>>, <<1920, 0, 3840, 1080>>>>

ScenarioConfig ==
    [BaseConfig EXCEPT !.edge_wrap.enabled = FALSE,
                       !.acceleration.enabled = FALSE,
                       !.monitor_switch.shift_threshold = 100]

EnvScenario ==
    [cfgs |-> {ScenarioConfig}, layouts |-> {FullHD},
     points |-> {<<1919, 540>>, <<1920, 540>>, <<2069, 540>>, <<2070, 540>>},
     mods |-> BOOLEAN \X {FALSE},
     outcomes |-> {AllOk}, enums |-> {"ok"}, dts |-> {1},
     watch |-> {"prev", "last_warp_time"}]

InitScenario == InitIn(EnvScenario)

SpecScenario == InitScenario /\ [][Next]_vars

\* The tick sampled the pointer at <<px, 540>>, 150 pixels left of the
\* previous position, with the switch modifier held and more than 400 ms
\* after the last warp.
C8_Scene(px) ==
    /\ JustTicked
    /\ mon_list = FullHD
    /\ config.monitor_switch.enabled
    /\ config.monitor_switch.shift_threshold = 100
    /\ out.raw = <<px, 540>>
    /\ shift_pressed
    /\ out.pre[1].prev[1] # None
    /\ out.raw[1] - PrevBefore[1] = -150
    /\ now - out.pre[1].last_warp_time[1] > SWITCH_COOLDOWN

(***************************************************************************)
(* C8.  As claimed: in the scene at (1919,540) the tick switches to        *)
(* monitor 0 and moves the pointer to its centre (960,540).                *)
(***************************************************************************)
C8_SwitchFrom1919 ==
    C8_Scene(1919) => (out.switch = Some(0) /\ ptr = <<960, 540>>)

\* C8, amended: (1919,540) is the last column of monitor 0, which has no
\* monitor to its left, so nothing is switched and the pointer stays; in
\* the scene at (1920,540), the first column of monitor 1, the tick
\* switches to monitor 0 and moves the pointer to (960,540).
C8_SwitchFrom1920 ==
    /\ C8_Scene(1920) => (out.switch = Some(0) /\ ptr = <<960, 540>>)
    /\ C8_Scene(1919) => (out.switch = None /\ ptr = <<1919, 540>>)

\* C8 witness: the scene at (1920,540) ended with the pointer at (960,540).
C8_Witness == C8_Scene(1920) /\ out.switch = Some(0) /\ ptr = <<960, 540>>

\* The scene at (1919,540) happened as well.
C8_WitnessLastColumn == C8_Scene(1919)

(***************************************************************************)
(* Failing collaborators: in any iteration one of the external calls may   *)
(* fail (the pointer query raises, xdotool fails), and an enumeration may  *)
(* find xrandr or xdpyinfo unusable or the root geometry query raising.    *)
(***************************************************************************)
FaultyOutcomes ==
    {AllOk} \cup {[AllOk EXCEPT ![k] = FALSE] : k \in {"query", "switch", "requery"}}

EnvFaults ==
    [cfgs |-> {SwitchConfig}, layouts |-> {Dual},
     points |-> {<<1, 1>>, <<MW, 1>>},
     mods |-> {<<TRUE, FALSE>>},
     outcomes |-> FaultyOutcomes,
     enums |-> {"ok", "none", "raise"},
     dts |-> {1}, watch |-> {}]

InitFaults == InitIn(EnvFaults)

SpecFaults == InitFaults /\ [][Next]_vars

\* The external calls whose failure is an exception nothing catches.
C9_ExternalCalls == {"query_pointer", "get_mouse_pos", "get_geometry"}

(***************************************************************************)
(* C9.  No failure of an external call (pointer query, pointer move,       *)
(* monitor enumeration, root geometry query) terminates the main loop: the *)
(* loop is never left because one of these calls failed.                   *)
(***************************************************************************)
C9_LoopSurvives == ~(~alive /\ out.fault \in C9_ExternalCalls)

(***************************************************************************)
(* The iteration in steps.  signal.signal(SIGHUP, reload_config) makes     *)
(* Python run reload_config in the main thread between two bytecode        *)
(* instructions of whatever main() is executing, so the handler may run    *)
(* inside an iteration.  Here the iteration is cut after the sample, the   *)
(* acceleration, the switch gesture and the edge wrap (pc says which step  *)
(* comes next), and SIGHUP is delivered at any of these places.            *)
(***************************************************************************)
Frame == <<clock, xlayout, pending, hist, threads, env>>

TickBegin ==
    /\ alive
    /\ pc = "loop"
    /\ \E s \in Samples, f \in env.outcomes, kind \in env.enums :
         \E st \in {StepBegin(State, pending, s, f.query,
                              EnumOutcome(kind, xlayout), clock, env.watch)} :
            Install(st)
    /\ pc' = "sampled"
    /\ pending' = 0
    /\ UNCHANGED <<clock, xlayout, hist, threads, env>>

TickAccel ==
    /\ alive
    /\ pc = "sampled"
    /\ \E f \in env.outcomes :
         \E st \in {StepAccel(State, xlayout, f.accel)} : Install(st)
    /\ pc' = "accelerated"
    /\ UNCHANGED Frame

TickSwitch ==
    /\ alive
    /\ pc = "accelerated"
    /\ \E f \in env.outcomes :
         \E st \in {StepSwitch(State, xlayout, f.switch, f.requery, clock)} :
            Install(st)
    /\ pc' = "switched"
    /\ UNCHANGED Frame

TickWrap ==
    /\ alive
    /\ pc = "switched"
    /\ \E f \in env.outcomes :
         \E st \in {StepWrap(State, xlayout, f.wrap_v, f.wrap_h)} : Install(st)
    /\ pc' = "wrapped"
    /\ UNCHANGED Frame

\* The crossing detection, the commits at the end of the loop, the sleep.
TickEnd ==
    /\ alive
    /\ pc = "wrapped"
    /\ \E dt \in env.dts :
         /\ clock + dt <= MaxTime
         /\ clock' = clock + dt
    /\ \E st \in {StepClassify(State)} :
         WithinReach(st, xlayout) /\ Install(st)
    /\ pc' = "loop"
    /\ UNCHANGED <<xlayout, pending, hist, threads, env>>

\* SIGHUP delivered while main() is anywhere in the loop.
SigHupAnywhere ==
    /\ alive
    /\ \E cfg \in env.cfgs, kind \in env.enums :
         \E st \in {reload_config(State, cfg, clock,
                                   EnumOutcome(kind, xlayout))} : Install(st)
    /\ UNCHANGED <<pc, clock, xlayout, pending, hist, threads, env>>

NextSteps ==
    \/ TickBegin
    \/ TickAccel
    \/ TickSwitch
    \/ TickWrap
    \/ TickEnd
    \/ SigHupAnywhere
    \/ LayoutChange

\* Two configuration files that differ in the switch threshold and in the
\* indicator styles; one or two monitors.
SigConfig == [BaseConfig EXCEPT !.acceleration.enabled = FALSE]

SigConfigEdited ==
    [SigConfig EXCEPT !.monitor_switch.shift_threshold = 2,
                      !.highlight.monitor_cross_style = "edge_flash"]

EnvSig ==
    [cfgs |-> {SigConfig, SigConfigEdited}, layouts |-> {Dual, Single},
     points |-> {<<0, 1>>, <<MW, 1>>},
     mods |-> BOOLEAN \X {FALSE},
     outcomes |-> {AllOk}, enums |-> {"ok"}, dts |-> {1},
     watch |-> {}]

InitSig == InitIn(EnvSig)

SpecSig == InitSig /\ [][NextSteps]_vars

(***************************************************************************)
(* C10.  A configuration reload and its geometry refresh are observed only *)
(* at a tick boundary: while an iteration is under way (pc is not at the   *)
(* top of the loop) no step other than the iteration's own changes the     *)
(* configuration, the monitor list, the screen size or the tracking        *)
(* variables.                                                              *)
(***************************************************************************)
C10_ReloadAtTickBoundary ==
    [][(pc # "loop" /\ pc' = pc)
          => UNCHANGED <<config, mon_list, SCREEN_W, SCREEN_H, prev_x, prev_y,
                         prev_monitor, edge_resistance>>]_vars

(***************************************************************************)
(* Reloads: the configuration file is edited between two SIGHUPs, to one   *)
(* of two well-formed contents or to something tomllib rejects.            *)
(***************************************************************************)
EnvReload ==
    [cfgs |-> {SigConfig, SigConfigEdited, Malformed}, layouts |-> {Dual},
     points |-> {<<0, 1>>, <<MW, 1>>},
     mods |-> BOOLEAN \X {FALSE},
     outcomes |-> {AllOk}, enums |-> {"ok"}, dts |-> {1},
     watch |-> {}]

InitReload == InitIn(EnvReload)

SpecReload == InitReload /\ [][Next]_vars

(***************************************************************************)
(* C11.  A reload whose configuration is malformed is rejected: the        *)
(* previous configuration stays in effect and the main loop keeps running  *)
(* (the process is not ended by the reload).                               *)
(***************************************************************************)
C11_MalformedReloadRejected ==
    /\ config \in env.cfgs \ {Malformed}
    /\ out.fault = "sys.exit" => alive

(***************************************************************************)
(* C12.  Whenever a tick can run the monitor list is non-empty, after the  *)
(* initial refresh and after every later one; a refresh whose enumeration  *)
(* yielded no rectangle left the single rectangle                          *)
(* (0, 0, root width, root height).                                        *)
(***************************************************************************)
C12_MonitorListNonEmpty ==
    alive =>
        /\ Len(mon_list) > 0
        /\ (/\ out.refresh # None
            /\ out.refresh[1].seen # None
            /\ out.refresh[1].seen[1].xrandr = <<>>)
           => mon_list = <<<<0, 0, out.refresh[1].seen[1].root[1],
                                   out.refresh[1].seen[1].root[2]>>>>

\* C12 witness: an iteration drained a RandR event, the refresh found
\* neither xrandr nor xdpyinfo usable while two monitors were listed, and
\* the iteration ran on the single root rectangle.
C12_Witness ==
    /\ JustTicked
    /\ out.refresh # None
    /\ out.refresh[1].seen # None
    /\ out.refresh[1].seen[1].xrandr = <<>>
    /\ out.refresh[1].seen[1].dims = <<0, 0>>
    /\ out.refresh[1].ret
    /\ xlayout = Dual
    /\ mon_list = <<<<0, 0, 2 * MW, MH>>>>

(***************************************************************************)
(* The first iterations: every feature on, with and without edge           *)
(* resistance, the pointer found in a corner, at an edge or inside a       *)
(* monitor, any modifier held.                                             *)
(***************************************************************************)
ResistingConfig == [BaseConfig EXCEPT !.edge_resistance.enabled = TRUE]

EnvFirst ==
    [cfgs |-> {BaseConfig, ResistingConfig}, layouts |-> {Dual},
     points |-> {<<0, 0>>, <<1, 1>>, <<2 * MW - 1, MH - 1>>},
     mods |-> BOOLEAN \X BOOLEAN,
     outcomes |-> {AllOk}, enums |-> {"ok"}, dts |-> {0},
     watch |-> {"prev", "prev_monitor"}]

InitFirst == InitIn(EnvFirst)

SpecFirst == InitFirst /\ [][Next]_vars

\* The iteration started with no previous position and no previous monitor.
C13_FirstTick ==
    /\ JustTicked
    /\ out.pre[1].prev = <<None, None>>
    /\ out.pre[1].prev_monitor = None

C14_TrackingFollowsPointer ==
    JustTicked =>
        /\ edge_resistance.last_time = Some(now)
        /\ edge_resistance.last_pos = ptr

(***************************************************************************)
(* Geometry changes while the pointer is being tracked.                    *)
(***************************************************************************)
\* Every feature at its default, the monitors rearranged between one and
\* two monitors; what the drain leaves of the tracking state is watched.
EnvReset ==
    [cfgs |-> {BaseConfig}, layouts |-> {Dual, Single},
     points |-> {<<0, 1>>, <<1, 1>>, <<MW, 1>>},
     mods |-> {<<FALSE, FALSE>>},
     outcomes |-> {AllOk}, enums |-> {"ok"},
     dts |-> {1, GEOMETRY_REFRESH_DEBOUNCE},
     watch |-> {"prev", "prev_monitor", "edge_resistance"}]

InitReset == InitIn(EnvReset)

SpecReset == InitReset /\ [][Next]_vars

(***************************************************************************)
(* C15.  After every accepted refresh that changed the geometry, all edge  *)
(* and tracking state is cleared: every edge's dwell timestamp and         *)
(* pressure, the resistance tracking's last position and timestamp, the    *)
(* previous pointer position and the previous monitor index.               *)
(***************************************************************************)
C15_RefreshClearsTracking ==
    (out.refresh # None /\ out.refresh[1].ret) =>
        IF out.refresh[1].force
        THEN /\ edge_resistance = EdgeResistance_reset
             /\ prev_x = None /\ prev_y = None
             /\ prev_monitor = None
        ELSE /\ out.pre[1].edge_resistance = Some(EdgeResistance_reset)
             /\ out.pre[1].prev = <<None, None>>
             /\ out.pre[1].prev_monitor = None

(***************************************************************************)
(* Time-mode resistance on one monitor.                                    *)
(***************************************************************************)
TimeConfig ==
    [BaseConfig EXCEPT !.edge_resistance.enabled = TRUE,
                       !.edge_resistance.mode = "time",
                       !.acceleration.enabled = FALSE,
                       !.monitor_switch.enabled = FALSE]

\* The pointer dwells at the top, the bottom and the left edge of one
\* monitor and in its interior, ticks 100 ms apart.
EnvTime ==
    [cfgs |-> {TimeConfig}, layouts |-> {Single},
     points |-> {<<1, 0>>, <<1, 1>>, <<1, MH - 1>>, <<0, 1>>},
     mods |-> {<<FALSE, FALSE>>},
     outcomes |-> {AllOk}, enums |-> {"ok"}, dts |-> {1},
     watch |-> {"edge_resistance"}]

InitTime == InitIn(EnvTime)

SpecTime == InitTime /\ [][Next]_vars

\* The other edge of the axis of edge e.
Opposite(e) ==
    CASE e = "top" -> "bottom" [] e = "bottom" -> "top"
      [] e = "left" -> "right" [] e = "right" -> "left"

\* What the tick did with the dwell of edge e while the pointer was
\* pressed against it: started it, kept denying, or let the wrap through
\* and cleared it.
C16_Dwell(e) ==
    LET t0 == ErBefore.edge_hit_time[e]
        D == config.edge_resistance.time_delay
    IN  IF t0 = None
        THEN ~Wrapped(e) /\ edge_resistance.edge_hit_time[e] = Some(now)
        ELSE IF now - t0[1] < D
        THEN ~Wrapped(e) /\ edge_resistance.edge_hit_time[e] = t0
        ELSE Wrapped(e) /\ edge_resistance.edge_hit_time[e] = None

C17_UnpressedEdgesClear ==
    JustTicked =>
        \A e \in Edges :
            ~PressedAt(e) =>
                /\ edge_resistance.edge_hit_time[e] = None
                /\ edge_resistance.edge_pressure[e] = 0

(***************************************************************************)
(* The acceleration pressure counters from one tick to the next.           *)
(***************************************************************************)
\* The tick took the acceleration branch: enabled, modifier held, a
\* previous sample recorded.
C18_Accelerating ==
    /\ config.acceleration.enabled
    /\ ctrl_pressed
    /\ out.pre[1].prev[1] # None

\* The acceleration branch found the pointer where the previous tick left
\* it.
C18_ZeroDelta == C18_Accelerating /\ out.raw = PrevBefore

\* The transform ran and its amplified position lies beyond edge e.
C18_Overflowed(e) ==
    /\ C18_Accelerating
    /\ out.raw # PrevBefore
    /\ C3_Overflow(e) > 0

AccelConfigClamp == [AccelConfig EXCEPT !.acceleration.edge_resistance = 0]

EnvClamp ==
    [cfgs |-> {AccelConfig, AccelConfigClamp}, layouts |-> {Dual},
     points |-> {<<0, 1>>, <<1, 1>>, <<MW - 1, 1>>, <<MW, 1>>, <<1, MH - 1>>},
     mods |-> {FALSE} \X BOOLEAN,
     outcomes |-> {AllOk}, enums |-> {"ok"}, dts |-> {0},
     watch |-> {"prev", "accel_edge_pressure"}]

InitClamp == InitIn(EnvClamp)

SpecClamp == InitClamp /\ [][Next]_vars

\* The transform ran without edge resistance.
C19_Clamping ==
    /\ JustTicked
    /\ C18_Accelerating
    /\ out.raw # PrevBefore
    /\ config.acceleration.edge_resistance = 0

\* Point <<px, py>> is a pixel of the monitor of the previous position.
C19_Inside(px, py) ==
    /\ AccelMonitor[1] <= px /\ px <= AccelMonitor[3] - 1
    /\ AccelMonitor[2] <= py /\ py <= AccelMonitor[4] - 1

(***************************************************************************)
(* C19.  With acceleration edge resistance 0 and the modifier held, the    *)
(* position the transform yields is inside the rectangle of the monitor    *)
(* containing the previous position: x1 <= x <= x2 - 1 and                 *)
(* y1 <= y <= y2 - 1; the tick moves the pointer nowhere else.             *)
(***************************************************************************)
C19_HardClamp ==
    C19_Clamping =>
        /\ C19_Inside(x, y)
        /\ \A i \in 1..Len(out.moves) :
              C19_Inside(out.moves[i][1], out.moves[i][2])

\* The amplified position lies beyond the monitor and the pointer is put
\* on the monitor's last column.
C19_Witness ==
    /\ C19_Clamping
    /\ out.accel[1] >= AccelMonitor[3]
    /\ x = AccelMonitor[3] - 1
    /\ Len(out.moves) = 1

(***************************************************************************)
(* The switch gesture across three monitors.                               *)
(***************************************************************************)
\* Three monitors side by side, listed by xrandr out of order.
Triple ==
    <<<<MW, 0, 2 * MW, MH>>, <<2 * MW, 0, 3 * MW, MH>>, <<0, 0, MW, MH>>>>

\* The first column of each monitor and the last one of the screen, shift
\* pressed or not.
EnvAdjacent ==
    [cfgs |-> {SwitchConfig}, layouts |-> {Triple},
     points |-> {<<px, 1>> : px \in {0, MW, 2 * MW, 3 * MW - 1}},
     mods |-> BOOLEAN \X {FALSE},
     outcomes |-> {AllOk}, enums |-> {"ok"},
     dts |-> {1, SWITCH_COOLDOWN + 1}, watch |-> {"prev"}]

InitAdjacent == InitIn(EnvAdjacent)

SpecAdjacent == InitAdjacent /\ [][Next]_vars

\* The sorted index of the monitor the pointer was sampled on.
C20_Current == get_monitor_at(mon_list, out.raw[1], out.raw[2])

\* The centre of the monitor of sorted index i.
C20_Centre(i) ==
    <<(mon_list[i + 1][1] + mon_list[i + 1][3]) \div 2,
      (mon_list[i + 1][2] + mon_list[i + 1][4]) \div 2>>

(***************************************************************************)
(* C20.  Every switch targets the centre of the monitor whose sorted index *)
(* is exactly one less (move to the left) or one more (move to the right)  *)
(* than that of the pointer's monitor, and the index is within             *)
(* [0, monitor count): no wraparound.                                      *)
(***************************************************************************)
C20_SwitchIsAdjacent ==
    (JustTicked /\ out.switch # None) =>
        LET idx == out.switch[1]
        IN  /\ 0 <= idx /\ idx < Len(mon_list)
            /\ idx = IF out.raw[1] < PrevBefore[1]
                     THEN C20_Current - 1 ELSE C20_Current + 1
            /\ out.moves[1] = <<C20_Centre(idx)[1], C20_Centre(idx)[2], TRUE>>
            /\ ptr = C20_Centre(idx)

\* A switch from the middle monitor to the last one.
C20_Witness ==
    /\ JustTicked
    /\ Len(mon_list) = 3
    /\ C20_Current = 1
    /\ out.switch = Some(2)
    /\ ptr = C20_Centre(2)

(***************************************************************************)
(* The switch modifier released and pressed again inside the cooldown.     *)
(***************************************************************************)
\* Two monitors, ticks 100 ms apart: a switch, a horizontal wrap or a
\* crossing stamps the cooldown and the modifier is pressed again before
\* 400 ms have passed.
EnvRepress ==
    [cfgs |-> {SwitchConfig}, layouts |-> {Dual},
     points |-> {<<0, 1>>, <<MW - 1, 1>>, <<MW, 1>>, <<2 * MW - 1, 1>>},
     mods |-> BOOLEAN \X {FALSE},
     outcomes |-> {AllOk}, enums |-> {"ok"}, dts |-> {1},
     watch |-> {"prev", "prev_shift_pressed", "last_warp_time",
                "prev_monitor"}]

InitRepress == InitIn(EnvRepress)

SpecRepress == InitRepress /\ [][Next]_vars

\* The tick sampled the modifier held after a tick that sampled it released.
C21_Repressed ==
    /\ JustTicked
    /\ shift_pressed
    /\ ~out.pre[1].prev_shift_pressed

\* The tick stamped the cooldown: a switch, a horizontal wrap or a
\* classified crossing.
C21_Stamped ==
    out.switch # None \/ out.wrap_h # None \/ out.cross # "none"

\* The monitor a delta beyond the threshold asks for, when it exists.
C21_Target ==
    LET cur == get_monitor_at(mon_list, out.raw[1], out.raw[2])
        delta == out.raw[1] - PrevBefore[1]
        threshold == config.monitor_switch.shift_threshold
    IN  IF delta < -threshold /\ cur > 0 THEN Some(cur - 1)
        ELSE IF delta > threshold /\ cur < Len(mon_list) - 1 THEN Some(cur + 1)
        ELSE None

(***************************************************************************)
(* C21.  On a tick that samples the switch modifier held after a tick      *)
(* that sampled it released, the cooldown is reset to 0 before the gesture *)
(* is evaluated: a delta beyond the threshold switches to the adjacent     *)
(* monitor, when there is one, however recently the cooldown was stamped.  *)
(* On a tick without such a transition the cooldown is not reset.          *)
(***************************************************************************)
C21_RepressResetsCooldown ==
    JustTicked =>
        /\ (C21_Repressed /\ config.monitor_switch.enabled
            /\ out.pre[1].prev[1] # None) => out.switch = C21_Target
        /\ ~C21_Stamped =>
               last_warp_time = IF C21_Repressed THEN 0
                                ELSE out.pre[1].last_warp_time[1]

\* The modifier is pressed again 200 ms after a switch and the gesture
\* switches back.
C21_Witness ==
    /\ C21_Repressed
    /\ out.switch # None
    /\ out.pre[1].last_warp_time[1] > 0
    /\ now - out.pre[1].last_warp_time[1] <= SWITCH_COOLDOWN

\* The cooldown timestamp the classifier of the tick compared with: the one
\* the tick started from, or 0 when the tick reset it.
C22_Cooldown == IF C21_Repressed THEN 0 ELSE out.pre[1].last_warp_time[1]

\* The classifier ran on a pointer whose monitor is not the one recorded by
\* the previous tick, on a tick without a switch or a horizontal wrap.
C22_CrossedUnaided ==
    /\ out.pre[1].prev_monitor # None
    /\ get_monitor_at(mon_list, x, y) # out.pre[1].prev_monitor[1]
    /\ out.switch = None
    /\ out.wrap_h = None

(***************************************************************************)
(* C22.  The classifier emits an indicator on a tick only if the monitor   *)
(* of the tick's position differs from the monitor recorded on the         *)
(* previous tick and more than 100 ms have elapsed since the last warp or  *)
(* switch stamp; on a tick in which the switch gesture or a horizontal     *)
(* wrap fired it emits nothing.                                            *)
(***************************************************************************)
C22_ClassifierGuard ==
    (JustTicked /\ out.cross # "none") =>
        /\ C22_CrossedUnaided
        /\ now - out.pre[1].last_warp_time[1] > CROSS_COOLDOWN

(***************************************************************************)
(* C22, amended.  As above, the 100 ms being counted from the cooldown     *)
(* timestamp as the tick's re-press reset left it: a tick that samples the *)
(* switch modifier newly held classifies a crossing however recent the     *)
(* last stamp is.                                                          *)
(***************************************************************************)
C22_ClassifierGuardAfterReset ==
    (JustTicked /\ out.cross # "none") =>
        /\ C22_CrossedUnaided
        /\ now - C22_Cooldown > CROSS_COOLDOWN

\* A crossing classified 100 ms after the previous stamp, the modifier
\* newly held.
C22_Witness ==
    /\ JustTicked
    /\ out.cross # "none"
    /\ C21_Repressed
    /\ out.pre[1].last_warp_time[1] > 0
    /\ now - out.pre[1].last_warp_time[1] <= CROSS_COOLDOWN

(***************************************************************************)
(* Pointer moves that fail.                                                *)
(***************************************************************************)
\* xdotool fails on every move of the iteration; the pointer queries
\* succeed.
AllMovesFail ==
    [query |-> TRUE, accel |-> FALSE, switch |-> FALSE, requery |-> TRUE,
     wrap_v |-> FALSE, wrap_h |-> FALSE]

\* Every feature at its default on two monitors, the moves of an iteration
\* all succeeding or all failing.
EnvMoveFails ==
    [cfgs |-> {BaseConfig}, layouts |-> {Dual},
     points |-> {<<0, 1>>, <<MW - 1, 1>>},
     mods |-> {<<FALSE, FALSE>>, <<TRUE, FALSE>>, <<FALSE, TRUE>>},
     outcomes |-> {AllOk, AllMovesFail}, enums |-> {"ok"}, dts |-> {2},
     watch |-> {"prev_shift_pressed", "last_warp_time", "edge_resistance"}]

InitMoveFails == InitIn(EnvMoveFails)

SpecMoveFails == InitMoveFails /\ [][Next]_vars

\* The tick requested moves and every one of them failed.
C23_MovesFailed ==
    /\ JustTicked
    /\ Len(out.moves) > 0
    /\ \A i \in 1..Len(out.moves) : ~out.moves[i][3]

(***************************************************************************)
(* C23.  When a pointer move fails the directive is skipped and prior      *)
(* state is kept: no indicator is requested for it, the edge's resistance  *)
(* state is not cleared, the cooldown is not stamped and the tracked       *)
(* position is not the target that was not reached, for edge wrap, switch  *)
(* and acceleration alike.                                                 *)
(***************************************************************************)
C23_FailedMoveSkipsDirective ==
    C23_MovesFailed =>
        /\ \A i \in 1..Len(out.indicators) :
              out.indicators[i].tag \notin {"edge-wrap", "monitor-warp"}
        /\ \A e \in Edges :
              /\ edge_resistance.edge_hit_time[e] = ErBefore.edge_hit_time[e]
              /\ edge_resistance.edge_pressure[e] = ErBefore.edge_pressure[e]
        /\ out.cross = "none" => last_warp_time = C22_Cooldown
        /\ <<prev_x, prev_y>> = <<Some(ptr[1]), Some(ptr[2])>>

(***************************************************************************)
(* The threads.  The main loop uses the display connection d for the RandR *)
(* events and, inside query_pointer, for the pointer; the i3 focus         *)
(* listener runs _on_window_focus in its own thread and reaches d through  *)
(* get_mouse_pos; every indicator is animated by a thread of its own on a  *)
(* connection of its own.  threads.using holds the threads that are inside *)
(* a call on d, threads.lock the holder of _display_lock.  The main loop's *)
(* iteration is cut at its calls on d: pc is "draining" inside             *)
(* d.pending_events() / d.next_event(), "drained" after them, "locked"     *)
(* once query_pointer holds the lock and "querying" inside                 *)
(* root.query_pointer().                                                   *)
(***************************************************************************)
Program == <<config, mon_list, SCREEN_W, SCREEN_H, last_geometry_refresh,
             prev_x, prev_y, last_warp_time, prev_shift_pressed,
             accel_edge_pressure, prev_monitor, edge_resistance, x, y,
             shift_pressed, ctrl_pressed, now, alive, ptr, out>>

\* while d.pending_events(): event = d.next_event() -- no lock is taken.
MainDrainBegin ==
    /\ alive
    /\ pc = "loop"
    /\ pc' = "draining"
    /\ threads' = [threads EXCEPT !.using = @ \cup {"main"}]
    /\ UNCHANGED <<Program, clock, xlayout, pending, hist, env>>

MainDrainEnd ==
    /\ alive
    /\ pc = "draining"
    /\ pc' = "drained"
    /\ threads' = [threads EXCEPT !.using = @ \ {"main"}]
    /\ UNCHANGED <<Program, clock, xlayout, pending, hist, env>>

\* query_pointer: with _display_lock
MainLock ==
    /\ alive
    /\ pc = "drained"
    /\ threads.lock = "free"
    /\ pc' = "locked"
    /\ threads' = [threads EXCEPT !.lock = "main"]
    /\ UNCHANGED <<Program, clock, xlayout, pending, hist, env>>

\* root.query_pointer() is entered.
MainQuery ==
    /\ alive
    /\ pc = "locked"
    /\ pc' = "querying"
    /\ threads' = [threads EXCEPT !.using = @ \cup {"main"}]
    /\ UNCHANGED <<Program, clock, xlayout, pending, hist, env>>

\* root.query_pointer() returns, the lock is released and the iteration
\* runs to its sleep; every indicator it requested starts an animation.
MainTick ==
    /\ alive
    /\ pc = "querying"
    /\ \E s \in Samples, f \in env.outcomes, kind \in env.enums, dt \in env.dts :
         /\ clock + dt <= MaxTime
         /\ \E st \in {Iteration(State, xlayout, pending, s, f,
                                  EnumOutcome(kind, xlayout), clock, env.watch)} :
                WithinReach(st, xlayout) /\ Install(st)
         /\ hist' = History(hist, prev_shift_pressed, s, out', clock)
         /\ clock' = clock + dt
    /\ pending' = 0
    /\ pc' = "loop"
    /\ threads' = [threads EXCEPT
                       !.using = @ \ {"main"}, !.lock = "free",
                       !.animations = Min2(MaxAnimations,
                                           @ + Len(out'.indicators))]
    /\ UNCHANGED <<xlayout, env>>

\* FocusWarp that also stamps the switch cooldown.
FocusWarp_Stamping(st, xl, rect, cur, ok, t) ==
    IF Contains(rect, cur[1], cur[2])
    THEN [st |-> st, warped |-> FALSE, shown |-> 0]
    ELSE [st |-> [move_mouse(st, xl, rect[1] + (rect[3] - rect[1]) \div 2,
                             rect[2] + (rect[4] - rect[2]) \div 2, ok)
                      EXCEPT !.out = st.out, !.last_warp_time = t],
          warped |-> TRUE,
          shown |-> IF st.config.highlight.enabled THEN 1 ELSE 0]

\* _on_window_focus once the pointer is known to be at cur: nothing when
\* the pointer is inside the focused window rect, else the pointer is moved
\* to the window's centre and an indicator is shown.  The listener's move
\* is no directive of the loop's tick.
FocusWarp(st, xl, rect, cur, ok, t) ==
    IF Contains(rect, cur[1], cur[2])
    THEN [st |-> st, warped |-> FALSE, shown |-> 0]
    ELSE [st |-> [move_mouse(st, xl, rect[1] + (rect[3] - rect[1]) \div 2,
                             rect[2] + (rect[4] - rect[2]) \div 2, ok)
                      EXCEPT !.out = st.out],
          warped |-> TRUE,
          shown |-> IF st.config.highlight.enabled THEN 1 ELSE 0]

\* A focus event arrives: _on_window_focus calls get_mouse_pos, whose
\* query_pointer takes the lock.
FocusLock ==
    /\ alive
    /\ threads.listener = "idle"
    /\ config.focus_warp.enabled
    /\ threads.lock = "free"
    /\ threads' = [threads EXCEPT !.lock = "listener", !.listener = "locked"]
    /\ UNCHANGED <<Program, pc, clock, xlayout, pending, hist, env>>

FocusQuery ==
    /\ alive
    /\ threads.listener = "locked"
    /\ threads' = [threads EXCEPT !.using = @ \cup {"listener"},
                                  !.listener = "querying"]
    /\ UNCHANGED <<Program, pc, clock, xlayout, pending, hist, env>>

FocusQueried ==
    /\ alive
    /\ threads.listener = "querying"
    /\ threads' = [threads EXCEPT !.using = @ \ {"listener"},
                                  !.lock = "free", !.cur = Some(ptr),
                                  !.listener = "found"]
    /\ UNCHANGED <<Program, pc, clock, xlayout, pending, hist, env>>

\* The rest of _on_window_focus, the focused window covering one monitor.
FocusWarpStep ==
    /\ alive
    /\ threads.listener = "found"
    /\ \E i \in 1..Len(xlayout), ok \in BOOLEAN :
         \E r \in {FocusWarp(State, xlayout, xlayout[i], threads.cur[1], ok,
                             clock)} :
            /\ Install(r.st)
            /\ threads' = [threads EXCEPT
                   !.listener = "idle", !.cur = None,
                   !.last_focus_warp_time = IF r.warped THEN clock ELSE @,
                   !.animations = Min2(MaxAnimations, @ + r.shown)]
    /\ UNCHANGED <<pc, clock, xlayout, pending, hist, env>>

\* An animation thread destroys its window, closes its connection and ends.
AnimationEnds ==
    /\ alive
    /\ threads.animations > 0
    /\ threads' = [threads EXCEPT !.animations = @ - 1]
    /\ UNCHANGED <<Program, pc, clock, xlayout, pending, hist, env>>

NextThreads ==
    \/ MainDrainBegin
    \/ MainDrainEnd
    \/ MainLock
    \/ MainQuery
    \/ MainTick
    \/ FocusLock
    \/ FocusQuery
    \/ FocusQueried
    \/ FocusWarpStep
    \/ AnimationEnds
    \/ SigHup
    \/ LayoutChange

\* Two monitors, the pointer sampled at the left edge of either.
EnvThreads ==
    [cfgs |-> {SwitchConfig}, layouts |-> {Dual},
     points |-> {<<0, 1>>, <<MW, 1>>},
     mods |-> {<<FALSE, FALSE>>},
     outcomes |-> {AllOk}, enums |-> {"ok"}, dts |-> {2}, watch |-> {}]

InitThreads == InitIn(EnvThreads)

SpecThreads == InitThreads /\ [][NextThreads]_vars

(***************************************************************************)
(* C24.  Every access to the display connection shared by the main loop    *)
(* and the focus listener is made while holding the display lock, so no    *)
(* two threads use the connection at the same time.                        *)
(***************************************************************************)
C24_DisplaySerialized ==
    /\ \A t \in threads.using : threads.lock = t
    /\ Cardinality(threads.using) <= 1

\* The orchestrator's state: previous position, previous monitor, previous
\* modifier state, cooldown timestamp, acceleration pressure counters,
\* resistance state and monitor list.
C25_Orchestrator ==
    <<prev_x, prev_y, prev_monitor, prev_shift_pressed, last_warp_time,
      accel_edge_pressure, edge_resistance, mon_list>>

(***************************************************************************)
(* C25.  The indicator animation threads and the focus listener thread     *)
(* never write orchestrator state: under any interleaving with the main    *)
(* loop it changes only in the step that runs the main loop's iteration    *)
(* or in a geometry refresh (here the one of a reload), which are steps in *)
(* which no other thread moves.                                            *)
(***************************************************************************)
C25_OnlyMainWrites ==
    [][C25_Orchestrator' # C25_Orchestrator
          => \/ pc = "querying" /\ pc' = "loop"
             \/ pc = "loop" /\ pc' = "loop" /\ threads' = threads]_vars

\* The listener has warped the pointer and its indicator is being animated
\* while the main loop, which has sampled the pointer before, is inside an
\* iteration.
C25_Witness ==
    /\ alive
    /\ threads.last_focus_warp_time > 0
    /\ threads.animations > 0
    /\ prev_x # None
    /\ pc = "drained"

(***************************************************************************)
(* The edge wrap on two monitors of the same and of different vertical     *)
(* extent, with and without a dwell.                                       *)
(***************************************************************************)
\* Two monitors side by side, the right one a pixel lower.
Uneven == <<<<0, 0, MW, MH>>, <<MW, 1, 2 * MW, MH + 1>>>>

WrapConfig ==
    [BaseConfig EXCEPT !.acceleration.enabled = FALSE,
                       !.monitor_switch.enabled = FALSE]

WrapConfigTimed ==
    [WrapConfig EXCEPT !.edge_resistance.enabled = TRUE,
                       !.edge_resistance.mode = "time",
                       !.edge_resistance.time_delay = 2]

\* The pointer at the edges of the screen, at the boundary between the
\* monitors, at the top and the bottom of either monitor, in a corner and
\* where the wrap out of that corner leaves it.
EnvWrap ==
    [cfgs |-> {WrapConfig, WrapConfigTimed}, layouts |-> {Dual, Uneven},
     points |-> {<<0, 1>>, <<MW, 1>>, <<2 * MW - 1, 1>>, <<2 * MW - 1, MH>>,
                 <<1, MH - 1>>, <<0, 0>>, <<2 * MW - 2, 0>>},
     mods |-> {<<FALSE, FALSE>>},
     outcomes |-> {AllOk}, enums |-> {"ok"}, dts |-> {2},
     watch |-> {"edge_resistance"}]

InitWrap == InitIn(EnvWrap)

SpecWrap == InitWrap /\ [][Next]_vars

\* The overall bounds of the monitors.
C26_Screen == get_screen_bounds(mon_list, SCREEN_W, SCREEN_H)

\* The move a vertical wrap from edge e asks for: the opposite edge of the
\* pointer's monitor, x unchanged.
C26_VerticalMove(e) ==
    IF e = "top" THEN <<x, WrapMonitor[4] - 2, TRUE>>
    ELSE <<x, WrapMonitor[2] + 1, TRUE>>

\* The move a horizontal wrap from edge e asks for: the opposite edge of
\* the screen, y unchanged.
C26_HorizontalMove(e) ==
    IF e = "left" THEN <<C26_Screen[3] - 2, y, TRUE>>
    ELSE <<C26_Screen[1] + 1, y, TRUE>>

\* The resistance engine let a wrap from edge e through: resistance is off,
\* or the dwell at the edge has lasted the delay.
C26_Allowed(e) ==
    config.edge_resistance.enabled =>
        /\ ErBefore.edge_hit_time[e] # None
        /\ now - ErBefore.edge_hit_time[e][1]
               >= config.edge_resistance.time_delay

(***************************************************************************)
(* C26.  The edge wrap evaluates the vertical axis before the horizontal   *)
(* one, each only when the resistance engine allows.  A vertical wrap      *)
(* fires only when y <= top or y >= bottom - 1 of the monitor containing   *)
(* the pointer and relocates to the opposite vertical edge of that         *)
(* monitor, x unchanged.  A horizontal wrap fires only when x <= min-x or  *)
(* x >= max-x - 1 of the overall screen bounds, never at the boundary      *)
(* between two monitors, and relocates to the opposite edge of the screen, *)
(* y unchanged.                                                            *)
(***************************************************************************)
C26_WrapAxes ==
    JustTicked =>
        /\ out.wrap_v = Some("top") => y <= WrapMonitor[2]
        /\ out.wrap_v = Some("bottom") => y >= WrapMonitor[4] - 1
        /\ out.wrap_h = Some("left") => x <= C26_Screen[1]
        /\ out.wrap_h = Some("right") => x >= C26_Screen[3] - 1
        /\ \A e \in Edges : Wrapped(e) => C26_Allowed(e)
        /\ out.moves =
              (IF out.wrap_v = None THEN <<>>
               ELSE <<C26_VerticalMove(out.wrap_v[1])>>)
              \o (IF out.wrap_h = None THEN <<>>
                  ELSE <<C26_HorizontalMove(out.wrap_h[1])>>)

\* Both axes wrapped on one tick, on the lower monitor, whose vertical
\* bounds are not those of the screen.
C26_Witness ==
    /\ JustTicked
    /\ out.wrap_v # None
    /\ out.wrap_h # None
    /\ Len(out.moves) = 2
    /\ WrapMonitor[2] # C26_Screen[2]

(***************************************************************************)
(* Monitors that xrandr lists out of order.                                *)
(***************************************************************************)
\* Two monitors one above the other, the lower one listed first.
StackedLowerFirst == <<<<0, MH, MW, 2 * MH>>, <<0, 0, MW, MH>>>>

EnvSorted ==
    [cfgs |-> {GeoConfig},
     layouts |-> {Dual, DualRightFirst, StackedLowerFirst, Triple},
     points |-> {<<0, 0>>, <<MW - 1, MH - 1>>},
     mods |-> {<<FALSE, FALSE>>},
     outcomes |-> {AllOk}, enums |-> {"ok", "none"},
     dts |-> {1, GEOMETRY_REFRESH_DEBOUNCE}, watch |-> {}]

InitSorted == InitIn(EnvSorted)

SpecSorted == InitSorted /\ [][Next]_vars

(***************************************************************************)
(* C27.  After every accepted refresh the monitor list is sorted ascending *)
(* by (x1, y1): for any two monitors at indices i < j, (x1_i, y1_i) <=     *)
(* (x1_j, y1_j) lexicographically.  This holds in every state in which a   *)
(* tick runs.                                                              *)
(***************************************************************************)
C27_MonitorListSorted ==
    \A i, j \in 1..Len(mon_list) :
        i < j => \/ mon_list[i][1] < mon_list[j][1]
                 \/ /\ mon_list[i][1] = mon_list[j][1]
                    /\ mon_list[i][2] <= mon_list[j][2]

\* A tick ran on two monitors of the same x origin that xrandr lists in
\* the other order.
C27_Witness ==
    /\ JustTicked
    /\ Len(mon_list) = 2
    /\ mon_list[1][1] = mon_list[2][1]
    /\ mon_list # xlayout
    /\ out.refresh # None /\ out.refresh[1].ret

(***************************************************************************)
(* C28.  In every reachable state, also after a refresh that shrinks the   *)
(* monitor list between ticks, every index the tick uses to subscript the  *)
(* monitor list is below the monitor count: the recorded previous monitor  *)
(* is an index of the list, and no tick faults on a stale index.           *)
(***************************************************************************)
C28_IndicesInRange ==
    /\ prev_monitor # None => prev_monitor[1] < Len(mon_list)
    /\ out.fault # "mon_list[prev_monitor]"

(***************************************************************************)
(* The tick after an edge wrap.                                            *)
(***************************************************************************)
\* Every feature at its default on two monitors; the pointer is sampled at
\* the top of the first monitor, at the left edge of the screen, and where
\* the wraps from there put it.
EnvAfterWrap ==
    [cfgs |-> {BaseConfig}, layouts |-> {Dual},
     points |-> {<<1, 0>>, <<1, MH - 2>>, <<0, 1>>, <<2 * MW - 2, 1>>},
     mods |-> BOOLEAN \X BOOLEAN,
     outcomes |-> {AllOk}, enums |-> {"ok"}, dts |-> {2},
     watch |-> {"prev", "prev_monitor"}]

InitAfterWrap == InitIn(EnvAfterWrap)

SpecAfterWrap == InitAfterWrap /\ [][Next]_vars

\* The last tick relocated the pointer by an edge wrap.
C29_Wrapped == alive /\ (out.wrap_v # None \/ out.wrap_h # None)

\* This step is a tick that samples the pointer where it was left.
C29_StationaryTick == clock' > clock /\ out'.raw = ptr

(***************************************************************************)
(* C29.  After a tick in which an edge wrap relocated the pointer, the     *)
(* delta of the next tick is measured from the wrap destination: a         *)
(* stationary pointer yields a zero delta, so the wrap jump is neither     *)
(* amplified by the acceleration nor counted as a switch gesture.          *)
(***************************************************************************)
C29_DeltaFromDestination ==
    [][(C29_Wrapped /\ C29_StationaryTick)
          => /\ out'.accel = None
             /\ out'.switch = None
             /\ out'.moves = <<>>]_vars

\* The tick that produced the current directives wrapped the pointer
\* horizontally.
C30_WrappedHorizontally == alive /\ out.wrap_h # None

(***************************************************************************)
(* C30.  The relocation made by a horizontal edge wrap is never classified *)
(* by the crossing detection of a later tick: the tick that samples the    *)
(* pointer where the wrap left it shows neither a natural-crossing nor a   *)
(* teleport indicator, whatever the poll interval and the modifiers.       *)
(***************************************************************************)
C30_WrapNotClassifiedLater ==
    [][(C30_WrappedHorizontally /\ C29_StationaryTick)
          => out'.cross = "none"]_vars

\* The tick that produced the current directives wrapped on both axes.
C31_BothWrapped == JustTicked /\ out.wrap_v # None /\ out.wrap_h # None

(***************************************************************************)
(* C31.  When a vertical and a horizontal edge wrap are both allowed on    *)
(* one tick (pointer in a corner), the last position the tick commands     *)
(* reflects both: the x of the horizontal wrap and the y of the vertical   *)
(* wrap.  The horizontal move does not undo the vertical wrap.             *)
(***************************************************************************)
C31_CornerKeepsBothWraps ==
    C31_BothWrapped =>
        /\ out.moves[Len(out.moves)][1] = C26_HorizontalMove(out.wrap_h[1])[1]
        /\ out.moves[Len(out.moves)][2] = C26_VerticalMove(out.wrap_v[1])[2]

\* The tick that produced the current directives wrapped the pointer, the
\* resistance being disabled.
C32_WrappedFreely ==
    /\ JustTicked
    /\ ~config.edge_resistance.enabled
    /\ (out.wrap_v # None \/ out.wrap_h # None)

\* Every monitor is at least 3 pixels wide and high.
C32_RoomyMonitors ==
    \A i \in 1..Len(mon_list) :
        /\ mon_list[i][3] - mon_list[i][1] >= 3
        /\ mon_list[i][4] - mon_list[i][2] >= 3

(***************************************************************************)
(* C32.  With resistance disabled and every monitor at least 3 pixels wide *)
(* and high, the tick that samples the pointer where an edge wrap left it  *)
(* wraps on neither axis: the wrap destination is outside every wrap band. *)
(***************************************************************************)
C32_NoWrapAtDestination ==
    [][(/\ C32_WrappedFreely
        /\ C32_RoomyMonitors
        /\ C29_StationaryTick
        /\ config' = config
        /\ mon_list' = mon_list)
          => (out'.wrap_v = None /\ out'.wrap_h = None)]_vars

(***************************************************************************)
(* The pressure counters: the acceleration and the distance resistance     *)
(* together, the distance threshold positive or zero.                      *)
(***************************************************************************)
PressureConfig ==
    [BaseConfig EXCEPT !.edge_resistance.enabled = TRUE,
                       !.edge_resistance.mode = "distance",
                       !.monitor_switch.enabled = FALSE]

PressureConfigZero ==
    [PressureConfig EXCEPT !.edge_resistance.distance_threshold = 0]

\* The pointer along the left edge and the top edge of the screen, at the
\* boundary between the monitors and inside.
EnvPressure ==
    [cfgs |-> {PressureConfig, PressureConfigZero}, layouts |-> {Dual},
     points |-> {<<0, 1>>, <<0, 2>>, <<1, 1>>, <<MW - 1, 1>>, <<MW, 1>>,
                 <<1, 0>>, <<2, 0>>},
     mods |-> {FALSE} \X BOOLEAN,
     outcomes |-> {AllOk}, enums |-> {"ok"}, dts |-> {0},
     watch |-> {}]

InitPressure == InitIn(EnvPressure)

SpecPressure == InitPressure /\ [][Next]_vars

\* Each acceleration counter is below the acceleration edge resistance,
\* when that is positive.
C33_AccelBelow ==
    config.acceleration.edge_resistance > 0 =>
        \A e \in Edges :
            /\ 0 <= accel_edge_pressure[e]
            /\ accel_edge_pressure[e] < config.acceleration.edge_resistance

\* Each distance pressure is below the distance threshold.
C33_DistanceBelow ==
    \A e \in Edges :
        /\ 0 <= edge_resistance.edge_pressure[e]
        /\ edge_resistance.edge_pressure[e]
               < config.edge_resistance.distance_threshold

\* At most one acceleration counter per axis is non-zero.
C33_OnePerAxis ==
    /\ accel_edge_pressure["left"] = 0 \/ accel_edge_pressure["right"] = 0
    /\ accel_edge_pressure["top"] = 0 \/ accel_edge_pressure["bottom"] = 0

C33_Bounds ==
    /\ C33_AccelBelow
    /\ config.edge_resistance.distance_threshold > 0 => C33_DistanceBelow
    /\ C33_OnePerAxis

C33_BoundsAsStated == C33_AccelBelow /\ C33_DistanceBelow /\ C33_OnePerAxis

(***************************************************************************)
(* C33, as stated.  Under a fixed configuration, at the end of every tick  *)
(* each acceleration counter p has 0 <= p < acceleration edge_resistance   *)
(* (when that is positive), each distance pressure q has                   *)
(* 0 <= q < distance_threshold, and at most one counter per axis is        *)
(* non-zero: a tick that runs under the configuration it started with ends *)
(* within the bounds.                                                      *)
(***************************************************************************)
C33_PressureBoundsAsStated ==
    [][(config' = config /\ JustTicked') => C33_BoundsAsStated']_vars

(***************************************************************************)
(* C33, amended.  The same, the bound on the distance pressures holding    *)
(* when distance_threshold is positive (with a threshold of 0 every        *)
(* pressure is 0, which is not below the threshold): the bounds hold at    *)
(* the start, and every step that keeps the configuration preserves them.  *)
(***************************************************************************)
C33_PressureBounds ==
    /\ C33_Bounds
    /\ [][(config' = config /\ C33_Bounds) => C33_Bounds']_vars

\* A tick left an acceleration counter and a distance pressure non-zero.
C33_Witness ==
    /\ JustTicked
    /\ config = PressureConfig
    /\ \E e \in Edges : accel_edge_pressure[e] > 0
    /\ \E e \in Edges : edge_resistance.edge_pressure[e] > 0

(***************************************************************************)
(* Hot-plug under a loop that keeps running: the X layout alternates       *)
(* between one and two monitors, a RandR event is queued for every change, *)
(* and the loop iterates again and again (while True), with or without     *)
(* the clock advancing between two iterations.                             *)
(***************************************************************************)
EnvHotplug ==
    [cfgs |-> {GeoConfig}, layouts |-> {Single, Dual},
     points |-> {<<1, 1>>, <<MW - 1, 1>>},
     mods |-> {<<FALSE, FALSE>>},
     outcomes |-> {AllOk}, enums |-> {"ok"}, dts |-> {0, 1},
     watch |-> {}]

InitHotplug == InitIn(EnvHotplug)

\* What every iteration of the loop does first: it empties the event queue
\* and reads the time.
LoopIterates == alive /\ pc = "loop" /\ pending' = 0 /\ now' = clock

\* while True never ends: as long as an event is queued or time has passed
\* since the last iteration, another iteration follows.
SpecHotplug ==
    InitHotplug /\ [][Next]_vars /\ WF_<<pending, now>>(LoopIterates)

\* The engine's monitor list is the layout of the X server.
C34_ListIsActual == mon_list = SortMonitors(xlayout)

(***************************************************************************)
(* C34.  When the monitor layout changes, with a RandR event queued for    *)
(* each change, then once the layout stops changing the monitor list       *)
(* eventually equals the actual layout: either the layout changes again    *)
(* and again, or from some point on the list is the layout.  An event      *)
(* drained inside the debounce window of an earlier refresh is not lost.   *)
(***************************************************************************)
C34_EventuallyActual ==
    []<><<xlayout' # xlayout>>_xlayout \/ <>[]C34_ListIsActual

====
